---------------------------- MODULE Spec2Model ----------------------------
(***************************************************************************)
(* Simpress: route registry, path patterns and the three-tier middleware   *)
(* pipeline of Simpress.toListener (final version of the framework).       *)
(***************************************************************************)
EXTENDS Naturals, Integers, Sequences, FiniteSets, TLC

VARIABLES
    app,        \* the Simpress instance: middlewares, errMiddlewares, routers
    routerHeap, \* Router objects: routes (insertion-ordered Map), middlewares, errMiddlewares
    routeHeap,  \* Route objects by identity: path, method, listener, middlewares, errMiddlewares
    listening,  \* server.listen() was called: requests are delivered to the listener
    req,        \* per request: position of the async listener, response, history
    raised      \* the exception the last failed registration call threw, "" if none did

vars == <<app, routerHeap, routeHeap, listening, req, raised>>

(***************************************************************************)
(* Bounds and pools                                                        *)
(***************************************************************************)
\* number of elements the setup calls may put into the registry
MaxSetup == 5

Undefined == "undefined"

Mws == {"m1", "m2"}
ErrMws == {"e1", "e2"}
Listeners == {"h1"}
Methods == {"GET", "POST"}
\* value a continuation is fired with in the sequential specification
ContVals == {Undefined, "E1"}
\* the Router created by the application author (0 is the default router)
UserRouters == {1}
\* a second Router, for the specification of the router list
MoreRouters == {2}
RouterIds == {0} \cup UserRouters \cup MoreRouters
RIds == {"r1", "r2"}

(***************************************************************************)
(* Regular expressions: a RegExp is a sequence of alternatives, each a     *)
(* sequence of atoms.                                                      *)
(***************************************************************************)
Bol == [t |-> "bol", c |-> "", n |-> ""]
Eol == [t |-> "eol", c |-> "", n |-> ""]
Chr(ch) == [t |-> "chr", c |-> ch, n |-> ""]
Opt(ch) == [t |-> "opt", c |-> ch, n |-> ""]
AnyChr == [t |-> "any", c |-> "", n |-> ""]
Plus(cls, name) == [t |-> "plus", c |-> cls, n |-> name]

NoRegExp == [alts |-> <<>>]

Digits == {"0", "1", "2", "3", "4", "5", "6", "7", "8", "9"}
InClass(cls, ch) ==
    IF cls = "d" THEN ch \in Digits
    ELSE ch \in Digits \cup {"a", "b", "c", "_"}

\* the set of positions at which atoms i.. of alt can end when started at pos
RECURSIVE MatchEnds(_, _, _, _)
MatchEnds(alt, i, pos, url) ==
    IF i > Len(alt) THEN {pos}
    ELSE LET a == alt[i] IN
         CASE a.t = "bol" -> IF pos = 0 THEN MatchEnds(alt, i + 1, pos, url) ELSE {}
           [] a.t = "eol" -> IF pos = Len(url) THEN MatchEnds(alt, i + 1, pos, url) ELSE {}
           [] a.t = "chr" -> IF pos < Len(url) /\ url[pos + 1] = a.c
                             THEN MatchEnds(alt, i + 1, pos + 1, url) ELSE {}
           [] a.t = "any" -> IF pos < Len(url)
                             THEN MatchEnds(alt, i + 1, pos + 1, url) ELSE {}
           [] a.t = "opt" -> MatchEnds(alt, i + 1, pos, url) \cup
                             (IF pos < Len(url) /\ url[pos + 1] = a.c
                              THEN MatchEnds(alt, i + 1, pos + 1, url) ELSE {})
           [] a.t = "plus" ->
                UNION { MatchEnds(alt, i + 1, e, url) :
                        e \in { k \in (pos + 1)..Len(url) :
                                  \A p \in (pos + 1)..k : InClass(a.c, url[p]) } }

\* RegExp.prototype.test: an unanchored search
Test(re, url) ==
    \E k \in 1..Len(re.alts) :
        \E start \in 0..Len(url) : MatchEnds(re.alts[k], 1, start, url) # {}

AtomSource(a) ==
    CASE a.t = "bol" -> "^"
      [] a.t = "eol" -> "$"
      [] a.t = "any" -> "."
      [] a.t = "chr" -> IF a.c \in {"/", "?"} THEN "\\" \o a.c ELSE a.c
      [] a.t = "opt" -> (IF a.c \in {"/", "?"} THEN "\\" \o a.c ELSE a.c) \o "?"
      [] a.t = "plus" -> "(?<" \o a.n \o ">\\" \o a.c \o "+)"

RECURSIVE AltSource(_)
AltSource(alt) == IF alt = <<>> THEN "" ELSE AtomSource(Head(alt)) \o AltSource(Tail(alt))

RECURSIVE AltsSource(_)
AltsSource(alts) ==
    IF alts = <<>> THEN ""
    ELSE IF Len(alts) = 1 THEN AltSource(alts[1])
    ELSE AltSource(alts[1]) \o "|" \o AltsSource(Tail(alts))

\* RegExp.prototype.source
Source(re) == AltsSource(re.alts)

\* the characters of a string path as the RegExp constructor reads them
PathAtom(ch) == IF ch = "." THEN AnyChr ELSE Chr(ch)

RECURSIVE PathAtoms(_)
PathAtoms(text) == IF text = <<>> THEN <<>> ELSE <<PathAtom(Head(text))>> \o PathAtoms(Tail(text))

\* new RegExp('^' + path + '\\/?$|\\?')
FromString(text) ==
    [alts |-> << <<Bol>> \o PathAtoms(text) \o <<Opt("/"), Eol>>, <<Chr("?")>> >>]

\* the groups left open after reading text, -1 when a ")" closes none
RECURSIVE OpenGroups(_, _)
OpenGroups(text, n) ==
    IF text = <<>> THEN n
    ELSE IF Head(text) = "(" THEN OpenGroups(Tail(text), n + 1)
    ELSE IF Head(text) = ")" THEN (IF n = 0 THEN -1 ELSE OpenGroups(Tail(text), n - 1))
    ELSE OpenGroups(Tail(text), n)

\* new RegExp(source) throws a SyntaxError for an unterminated group or an
\* unmatched ")"
Compiles(text) == OpenGroups(text, 0) = 0

\* the characters of a string path as one string
RECURSIVE TextOf(_)
TextOf(text) == IF text = <<>> THEN "" ELSE Head(text) \o TextOf(Tail(text))

\* a path argument: a string or a RegExp
StrPath(text) == [str |-> TRUE, text |-> text, re |-> NoRegExp, g |-> FALSE]
RePath(re) == [str |-> FALSE, text |-> <<>>, re |-> re, g |-> FALSE]
\* a RegExp with the g flag, as in /^\/a/g
GlobalPath(re) == [str |-> FALSE, text |-> <<>>, re |-> re, g |-> TRUE]

\* if (typeof path === 'string') path = new RegExp(...)
ToRegExp(path) == IF path.str THEN FromString(path.text) ELSE path.re

\* the registry key: method + '|' + path.source
RouteKey(method, re) == method \o "|" \o Source(re)

\* path arguments and request urls of the sequential specification
PathA == StrPath(<<"/", "a">>)
PathB == RePath([alts |-> << <<Bol, Chr("/"), Chr("a"), Opt("/")>> >>])
Urls == { <<"/", "a">>, <<"/", "a", "b">> }

(***************************************************************************)
(* Registry                                                                *)
(***************************************************************************)
\* Array.prototype.includes
Includes(list, x) == \E i \in 1..Len(list) : list[i] = x

\* faulty variant of PushUnique: the element is pushed without the includes test
PushAlways(list, x) == Append(list, x)

\* if (!list.includes(x)) list.push(x)
PushUnique(list, x) == IF Includes(list, x) THEN list ELSE Append(list, x)

\* faulty variant of NewRoute: the lists of a Route created before with the
\* same pattern and method are taken over
NewRouteInherits(re, method, listener) ==
    LET olds == { id \in DOMAIN routeHeap :
                    routeHeap[id].path = re /\ routeHeap[id].method = method }
        old == CHOOSE id \in olds : \A o \in olds : o[3] <= id[3]
    IN [path |-> re, global |-> FALSE, lastIndex |-> 0,
        method |-> method, listener |-> listener,
        middlewares |-> IF olds = {} THEN <<>> ELSE routeHeap[old].middlewares,
        errMiddlewares |-> IF olds = {} THEN <<>> ELSE routeHeap[old].errMiddlewares]

\* new Route(path, method, listener). The RegExp object in route.path carries
\* state of its own: its g flag and its lastIndex
NewRoute(re, method, listener) ==
    [path |-> re, global |-> FALSE, lastIndex |-> 0,
     method |-> method, listener |-> listener,
     middlewares |-> <<>>, errMiddlewares |-> <<>>]

\* new Router()
NewRouter == [routes |-> <<>>, middlewares |-> <<>>, errMiddlewares |-> <<>>]

\* faulty variant of MapSet: an existing key is deleted and set again, it goes last
MapSetMoveLast(entries, key, val) ==
    Append(SelectSeq(entries, LAMBDA e : e.key # key), [key |-> key, val |-> val])

\* Map.prototype.set: an existing key keeps its position, a new key goes last
MapSet(entries, key, val) ==
    IF \E i \in 1..Len(entries) : entries[i].key = key
    THEN [i \in 1..Len(entries) |->
            IF entries[i].key = key THEN [key |-> key, val |-> val] ELSE entries[i]]
    ELSE Append(entries, [key |-> key, val |-> val])

\* the identity of a Route object: the router whose route() created it, the key
\* it was created for, and how many Routes that router had created before
RouteId(r, key) ==
    <<r, key, Cardinality({ id \in DOMAIN routeHeap : id[1] = r })>>
NoRoute == <<0, "", 0>>

RECURSIVE SumLens(_, _)
SumLens(f, S) ==
    IF S = {} THEN 0
    ELSE LET x == CHOOSE y \in S : TRUE
         IN Len(f[x].middlewares) + Len(f[x].errMiddlewares) + SumLens(f, S \ {x})

\* what the setup calls have put into the registry so far
SetupSize ==
    Len(app.middlewares) + Len(app.errMiddlewares) + (Len(app.routers) - 1)
    + SumLens(routerHeap, RouterIds) + Cardinality(DOMAIN routeHeap)
    + SumLens(routeHeap, DOMAIN routeHeap)

\* JavaScript values of req.body: the type tag, truthiness, and the JSON text
NoValue == [t |-> "undefined", truthy |-> FALSE, json |-> ""]
\* req.pathParams: not assigned yet, null, or the named groups of the match
NoParams == [state |-> "unset", groups |-> <<>>]

\* req.queryParams: not assigned yet, or the query string url.parse found
NoQuery == [state |-> "unset", text |-> <<>>]

IdleReq ==
    [pc |-> "idle", method |-> "", url |-> <<>>, pathRegex |-> NoRegExp,
     router |-> 0, route |-> NoRoute, level |-> 0, idx |-> 0, eidx |-> 0, err |-> Undefined,
     cur |-> 0, awaiting |-> {}, trace |-> <<>>, status |-> 0, ended |-> FALSE,
     payload |-> "", body |-> NoValue, pathParams |-> NoParams, sent |-> "",
     queryParams |-> NoQuery]

Init ==
    /\ app = [middlewares |-> <<>>, errMiddlewares |-> <<>>, routers |-> <<0>>]
    /\ routerHeap = [r \in RouterIds |-> NewRouter]
    /\ routeHeap = <<>>
    /\ listening = FALSE
    /\ req = [r \in RIds |-> IdleReq]
    /\ raised = ""

\* Simpress.use
AppUse(m) ==
    /\ app' = [app EXCEPT !.middlewares = PushUnique(@, m)]
    /\ UNCHANGED <<routerHeap, routeHeap, listening, req, raised>>

\* Simpress.useForError
AppUseForError(e) ==
    /\ app' = [app EXCEPT !.errMiddlewares = PushUnique(@, e)]
    /\ UNCHANGED <<routerHeap, routeHeap, listening, req, raised>>

\* faulty variant of UseRouter: the router is put in front of the list
UseRouterFront(r) ==
    /\ app' = [app EXCEPT !.routers = IF Includes(@, r) THEN @ ELSE <<r>> \o @]
    /\ UNCHANGED <<routerHeap, routeHeap, listening, req, raised>>

\* Simpress.useRouter
UseRouter(r) ==
    /\ app' = [app EXCEPT !.routers = PushUnique(@, r)]
    /\ UNCHANGED <<routerHeap, routeHeap, listening, req, raised>>

\* Router.use
RouterUse(r, m) ==
    /\ routerHeap' = [routerHeap EXCEPT ![r].middlewares = PushUnique(@, m)]
    /\ UNCHANGED <<app, routeHeap, listening, req, raised>>

\* Router.useForError
RouterUseForError(r, e) ==
    /\ routerHeap' = [routerHeap EXCEPT ![r].errMiddlewares = PushUnique(@, e)]
    /\ UNCHANGED <<app, routeHeap, listening, req, raised>>

\* faulty variant of RouterRoute: the Map entry is written before the pattern
\* is constructed
RouterRouteSetFirst(r, path, method, listener) ==
    LET re == IF path.str /\ ~Compiles(path.text) THEN NoRegExp ELSE ToRegExp(path)
        key == IF path.str THEN method \o "|" \o TextOf(path.text)
               ELSE RouteKey(method, re)
        id == RouteId(r, key)
    IN /\ routeHeap' = (id :> NewRoute(re, method, listener)) @@ routeHeap
       /\ routerHeap' = [routerHeap EXCEPT ![r].routes = MapSet(@, key, id)]
       /\ raised' = IF path.str /\ ~Compiles(path.text) THEN "SyntaxError" ELSE raised
       /\ UNCHANGED <<app, listening, req>>

\* Router.route; Simpress.route is the same on this._routers[0]. The RegExp
\* constructor throws before the Route is created when the string does not compile
RouterRoute(r, path, method, listener) ==
    IF path.str /\ ~Compiles(path.text)
    THEN /\ raised' = "SyntaxError"
         /\ UNCHANGED <<app, routerHeap, routeHeap, listening, req>>
    ELSE LET re == ToRegExp(path)
             key == RouteKey(method, re)
             id == RouteId(r, key)
         IN /\ routeHeap' =
                   (id :> [NewRoute(re, method, listener) EXCEPT !.global = path.g])
                       @@ routeHeap
            /\ routerHeap' = [routerHeap EXCEPT ![r].routes = MapSet(@, key, id)]
            /\ UNCHANGED <<app, listening, req, raised>>

\* Simpress.route
AppRoute(path, method, listener) == RouterRoute(app.routers[1], path, method, listener)

\* Route.use
RouteUse(id, m) ==
    /\ routeHeap' = [routeHeap EXCEPT ![id].middlewares = PushUnique(@, m)]
    /\ UNCHANGED <<app, routerHeap, listening, req, raised>>

\* Route.useForError
RouteUseForError(id, e) ==
    /\ routeHeap' = [routeHeap EXCEPT ![id].errMiddlewares = PushUnique(@, e)]
    /\ UNCHANGED <<app, routerHeap, listening, req, raised>>

\* main: http.createServer(app.toListener()); server.listen(...)
Listen ==
    /\ ~listening
    /\ listening' = TRUE
    /\ UNCHANGED <<app, routerHeap, routeHeap, req, raised>>

(***************************************************************************)
(* The listener returned by Simpress.toListener                            *)
(***************************************************************************)
AppLevel == [k |-> "app", id |-> NoRoute]
RouterLevel(r) == [k |-> "router", id |-> <<r, "", 0>>]
RouteLevel(id) == [k |-> "route", id |-> id]

\* level.middlewares
MiddlewaresOf(lv) ==
    CASE lv.k = "app" -> app.middlewares
      [] lv.k = "router" -> routerHeap[lv.id[1]].middlewares
      [] lv.k = "route" -> routeHeap[lv.id].middlewares

\* level.errMiddlewares
ErrMiddlewaresOf(lv) ==
    CASE lv.k = "app" -> app.errMiddlewares
      [] lv.k = "router" -> routerHeap[lv.id[1]].errMiddlewares
      [] lv.k = "route" -> routeHeap[lv.id].errMiddlewares

\* history entries of a request
CallEv(kind, lv, i, fn, arg) ==
    [e |-> "call", kind |-> kind, k |-> lv.k, id |-> lv.id, idx |-> i, fn |-> fn, val |-> arg]
NextEv(call, v) == [call EXCEPT !.e = "next", !.val = v]
HandlerEv(id) ==
    [e |-> "handler", kind |-> "listener", k |-> "route", id |-> id, idx |-> 0,
     fn |-> routeHeap[id].listener, val |-> Undefined]
WriteHeadEv(code) ==
    [e |-> "writeHead", kind |-> "core", k |-> "", id |-> NoRoute, idx |-> code, fn |-> "", val |-> ""]
EndEv(body) ==
    [e |-> "end", kind |-> "core", k |-> "", id |-> NoRoute, idx |-> 0, fn |-> "", val |-> body]

\* the routes in scan order: for (router of this._routers) for ([_, route] of router.routes)
RECURSIVE ScanFrom(_, _)
ScanFrom(g, i) ==
    IF g > Len(app.routers) THEN <<>>
    ELSE LET r == app.routers[g] IN
         IF i > Len(routerHeap[r].routes) THEN ScanFrom(g + 1, 1)
         ELSE <<[router |-> r, route |-> routerHeap[r].routes[i].val]>> \o ScanFrom(g, i + 1)

ScanOrder == ScanFrom(1, 1)

\* where the match of atoms i.. of alt at pos ends: quantifiers take as much as
\* the rest of the pattern allows (there is a match)
RECURSIVE EndOf(_, _, _, _)
EndOf(alt, i, pos, url) ==
    IF i > Len(alt) THEN pos
    ELSE LET a == alt[i] IN
         CASE a.t \in {"bol", "eol"} -> EndOf(alt, i + 1, pos, url)
           [] a.t \in {"chr", "any"} -> EndOf(alt, i + 1, pos + 1, url)
           [] a.t = "opt" ->
                IF /\ pos < Len(url)
                   /\ url[pos + 1] = a.c
                   /\ MatchEnds(alt, i + 1, pos + 1, url) # {}
                THEN EndOf(alt, i + 1, pos + 1, url)
                ELSE EndOf(alt, i + 1, pos, url)
           [] a.t = "plus" ->
                LET ends == { k \in (pos + 1)..Len(url) :
                                /\ \A n \in (pos + 1)..k : InClass(a.c, url[n])
                                /\ MatchEnds(alt, i + 1, k, url) # {} }
                IN EndOf(alt, i + 1, CHOOSE k \in ends : \A n \in ends : n <= k, url)

\* the matches of re in url that start at from or later
HitsFrom(re, from, url) ==
    { h \in (from..Len(url)) \X (1..Len(re.alts)) :
        MatchEnds(re.alts[h[2]], 1, h[1], url) # {} }

\* RegExp.prototype.test of a RegExp with the g flag: the search starts at
\* lastIndex; a match leaves lastIndex at its end, a failure resets it to 0
TestGlobal(re, from, url) ==
    IF HitsFrom(re, from, url) = {} THEN [ok |-> FALSE, last |-> 0]
    ELSE LET h == CHOOSE x \in HitsFrom(re, from, url) :
                      \A y \in HitsFrom(re, from, url) :
                          x[1] < y[1] \/ (x[1] = y[1] /\ x[2] <= y[2])
         IN [ok |-> TRUE, last |-> EndOf(re.alts[h[2]], 1, h[1], url)]

\* route.path.test(req.url): the result and the lastIndex it leaves
TestRoute(id, url) ==
    IF routeHeap[id].global
    THEN TestGlobal(routeHeap[id].path, routeHeap[id].lastIndex, url)
    ELSE [ok |-> Test(routeHeap[id].path, url), last |-> routeHeap[id].lastIndex]

\* faulty variant of RouteMatches: the method is not compared
IgnoreMethod(id, method, url) == TestRoute(id, url).ok
\* route.path.test(req.url) && req.method === route.method
RouteMatches(id, method, url) ==
    TestRoute(id, url).ok /\ method = routeHeap[id].method

\* index in scan order of the route the scan stops at, 0 when it runs to the end
FirstMatch(method, url) ==
    LET hits == { i \in 1..Len(ScanOrder) : RouteMatches(ScanOrder[i].route, method, url) }
    IN IF hits = {} THEN 0 ELSE CHOOSE i \in hits : \A j \in hits : i <= j

\* the Route objects after the scan for a request: test was called on every
\* route up to the one the scan stopped at
Scanned(method, url) ==
    LET hit == FirstMatch(method, url)
        tested == { ScanOrder[i].route :
                      i \in 1..(IF hit = 0 THEN Len(ScanOrder) ELSE hit) }
    IN [id \in DOMAIN routeHeap |->
          IF id \in tested
          THEN [routeHeap[id] EXCEPT !.lastIndex = TestRoute(id, url).last]
          ELSE routeHeap[id]]

\* the async function returns
Return(q) == [q EXCEPT !.pc = "done", !.cur = 0]

\* faulty variant of NotFound: the response is not ended
NotFoundNoEnd(q) ==
    Return([q EXCEPT !.status = 404, !.trace = Append(@, WriteHeadEv(404))])
\* faulty variant of NotFound: the first middleware of the application is
\* called before the 404 is written
NotFoundAfterApp(q) ==
    LET calls == IF app.middlewares = <<>> THEN <<>>
                 ELSE <<CallEv("mw", AppLevel, 1, app.middlewares[1],
                               Undefined)>>
    IN Return([q EXCEPT !.status = 404, !.ended = TRUE,
                        !.trace = @ \o calls \o <<WriteHeadEv(404), EndEv("")>>])
\* res.writeHead(404); res.end()
NotFound(q) ==
    Return([q EXCEPT !.status = 404, !.ended = TRUE,
                     !.trace = @ \o <<WriteHeadEv(404), EndEv("")>>])

\* JSON.stringify(req.body) as res.end sends it (nothing for undefined)
JsonStringify(val) == val.json

\* the listeners of main: the handler of POST /echo writes 200 and the body;
\* the other listeners of the model are opaque
ListenerEffect(q) ==
    IF routeHeap[q.route].listener = "echo"
    THEN [q EXCEPT !.status = 200, !.sent = JsonStringify(q.body), !.ended = TRUE]
    ELSE IF routeHeap[q.route].listener = "root"
    THEN [q EXCEPT !.status = 200, !.sent = "{\"message\":\"ok\"}", !.ended = TRUE]
    ELSE q

\* faulty variant of CallListener: no return after the call, the loops run out
CallListenerNoReturn(q) ==
    NotFound(ListenerEffect([q EXCEPT !.trace = Append(@, HandlerEv(q.route))]))
\* route.listener(req, res); return
CallListener(q) ==
    Return(ListenerEffect([q EXCEPT !.trace = Append(@, HandlerEv(q.route))]))

\* faulty variant of Levels: innermost tier first
LevelsReversed(q) == <<RouteLevel(q.route), RouterLevel(q.router), AppLevel>>
\* faulty variant of Levels: the route is looked up in the Map of its router
\* by its key each time the levels are read
LevelsByKey(q) ==
    LET entries == routerHeap[q.router].routes
        held == { i \in 1..Len(entries) : entries[i].key = q.route[2] }
    IN <<AppLevel, RouterLevel(q.router),
         RouteLevel(IF held = {} THEN q.route ELSE entries[CHOOSE i \in held : TRUE].val)>>
\* [this, router, route]
Levels(q) == <<AppLevel, RouterLevel(q.router), RouteLevel(q.route)>>

RECURSIVE RunFrom(_, _, _)

\* faulty variant of Invoke: the stage is called and not awaited
InvokeNoAwait(q, kind, i, arg) ==
    LET lv == Levels(q)[q.level]
        list == IF kind = "mw" THEN MiddlewaresOf(lv) ELSE ErrMiddlewaresOf(lv)
        n == Len(q.trace) + 1
        called == [q EXCEPT !.awaiting = @ \cup {n},
                            !.trace = Append(@, CallEv(kind, lv, i, list[i], arg))]
    IN IF kind = "mw" THEN RunFrom(called, q.level, i + 1) ELSE Return(called)
\* faulty variant of Invoke: the stage is called without the continuation
InvokeNoResolve(q, kind, i, arg) ==
    LET lv == Levels(q)[q.level]
        list == IF kind = "mw" THEN MiddlewaresOf(lv) ELSE ErrMiddlewaresOf(lv)
        n == Len(q.trace) + 1
    IN [q EXCEPT !.pc = "await",
                 !.idx = IF kind = "mw" THEN i ELSE @,
                 !.eidx = IF kind = "emw" THEN i ELSE 0,
                 !.err = arg,
                 !.cur = n,
                 !.trace = Append(@, CallEv(kind, lv, i, list[i], arg))]
\* await new Promise(resolve => middleware(req, res, resolve)): the stage is
\* called with a fresh continuation and the listener waits for it
Invoke(q, kind, i, arg) ==
    LET lv == Levels(q)[q.level]
        list == IF kind = "mw" THEN MiddlewaresOf(lv) ELSE ErrMiddlewaresOf(lv)
        n == Len(q.trace) + 1
    IN [q EXCEPT !.pc = "await",
                 !.idx = IF kind = "mw" THEN i ELSE @,
                 !.eidx = IF kind = "emw" THEN i ELSE 0,
                 !.err = arg,
                 !.cur = n,
                 !.awaiting = @ \cup {n},
                 !.trace = Append(@, CallEv(kind, lv, i, list[i], arg))]

\* faulty variant of RunFrom: a level without middlewares ends the loops
RunFromStopsAtEmpty(q, lv, i) ==
    IF lv > 3 \/ MiddlewaresOf(Levels(q)[lv]) = <<>> THEN CallListener(q)
    ELSE IF i > Len(MiddlewaresOf(Levels(q)[lv])) THEN RunFrom(q, lv + 1, 1)
    ELSE Invoke([q EXCEPT !.level = lv], "mw", i, Undefined)

\* the loops over the levels and their middlewares, entered at middleware i of level lv
RunFrom(q, lv, i) ==
    IF lv > 3 THEN CallListener(q)
    ELSE IF i > Len(MiddlewaresOf(Levels(q)[lv])) THEN RunFrom(q, lv + 1, 1)
    ELSE Invoke([q EXCEPT !.level = lv], "mw", i, Undefined)

\* faulty variants of Exhausted: the middleware loop goes on; the loops are left
\* and the 404 is written
ExhaustedContinue(q) == RunFrom(q, q.level, q.idx + 1)
ExhaustedFallThrough(q) == NotFound(q)
\* the error middlewares ran out: return
Exhausted(q) == Return(q)

\* faulty variant of ErrLevel: every error goes to the application's error middlewares
ErrLevelApp(q) == 1
\* the level whose errMiddlewares handle an error of the current level
ErrLevel(q) == q.level

\* faulty variant of Cascade: every error middleware gets the error the failing
\* middleware passed
CascadeFirstError(q, err, j) ==
    LET lv == ErrLevel(q) IN
    IF j > Len(ErrMiddlewaresOf(Levels(q)[lv])) THEN Exhausted(q)
    ELSE Invoke([q EXCEPT !.level = lv], "emw", j, IF j = 1 THEN err ELSE q.err)

\* for (const errMiddleware of level.errMiddlewares), entered at error middleware j
Cascade(q, err, j) ==
    LET lv == ErrLevel(q) IN
    IF j > Len(ErrMiddlewaresOf(Levels(q)[lv])) THEN Exhausted(q)
    ELSE Invoke([q EXCEPT !.level = lv], "emw", j, err)

\* faulty variant of Resolved: the middleware loop goes on after the recovery
ResolvedContinue(q) == RunFrom(q, q.level, q.idx + 1)
\* if (err === undefined) return
Resolved(q) == Return(q)

\* JavaScript truthiness of the values continuations are fired with
Truthy(v) == v \notin {Undefined, "null", "false", "0"}

\* faulty variant of Resume: if (err) and if (!err) in place of the
\* comparisons with undefined
ResumeIfTruthy(q, v) ==
    IF q.eidx = 0
    THEN IF Truthy(v) THEN Cascade(q, v, 1) ELSE RunFrom(q, q.level, q.idx + 1)
    ELSE IF ~Truthy(v) THEN Resolved(q) ELSE Cascade(q, v, q.eidx + 1)
\* faulty variant of Resume: after a middleware the loop calls the same
\* middleware again
ResumeSameStage(q, v) ==
    IF q.eidx = 0
    THEN IF v # Undefined THEN Cascade(q, v, 1) ELSE RunFrom(q, q.level, q.idx)
    ELSE IF v = Undefined THEN Resolved(q) ELSE Cascade(q, v, q.eidx + 1)
\* faulty variant of Resume: the value a middleware passes is not looked at
ResumeIgnoreErr(q, v) ==
    IF q.eidx = 0 THEN RunFrom(q, q.level, q.idx + 1)
    ELSE IF v = Undefined THEN Resolved(q) ELSE Cascade(q, v, q.eidx + 1)
\* the awaited promise resolved with v
Resume(q, v) ==
    IF q.eidx = 0
    THEN IF v # Undefined THEN Cascade(q, v, 1) ELSE RunFrom(q, q.level, q.idx + 1)
    ELSE IF v = Undefined THEN Resolved(q) ELSE Cascade(q, v, q.eidx + 1)

\* faulty variant of ListenerAt: the pattern bound to the request is the one of
\* the first route of the scan
ListenerAtBindsFirst(q0, method, url, hit) ==
    LET q == [q0 EXCEPT !.method = method, !.url = url]
    IN IF hit = 0 THEN NotFound(q)
       ELSE LET m == ScanOrder[hit] IN
            RunFrom([q EXCEPT !.router = m.router, !.route = m.route,
                              !.pathRegex = routeHeap[ScanOrder[1].route].path], 1, 1)

\* the listener up to its first await, its scan stopping at position hit of
\* the scan order (0: at no route)
ListenerAt(q0, method, url, hit) ==
    LET q == [q0 EXCEPT !.method = method, !.url = url]
    IN IF hit = 0 THEN NotFound(q)
       ELSE LET m == ScanOrder[hit] IN
            RunFrom([q EXCEPT !.router = m.router, !.route = m.route,
                              !.pathRegex = routeHeap[m.route].path], 1, 1)

\* the listener up to its first await
Listener(q0, method, url) == ListenerAt(q0, method, url, FirstMatch(method, url))

\* a request is delivered to the listener
Arrive(r, method, url) ==
    /\ listening
    /\ req[r].pc = "idle"
    /\ req' = [req EXCEPT ![r] = Listener(@, method, url)]
    /\ routeHeap' = Scanned(method, url)
    /\ UNCHANGED <<app, routerHeap, listening, raised>>

\* resolve(v) of the stage called at history entry s: the promise settles and,
\* if the listener awaits it, the listener goes on
Fired(q, s, v) ==
    LET fired == [q EXCEPT !.awaiting = @ \ {s},
                           !.trace = Append(@, NextEv(q.trace[s], v))]
    IN IF q.pc = "await" /\ q.cur = s THEN Resume(fired, v) ELSE fired

\* a stage threw inside the executor of its promise
ThrowEv(call) == [call EXCEPT !.e = "throw", !.val = "Error"]

\* faulty variant of Rejected: the listener catches what the stage throws and
\* goes on as if the stage had passed it to its continuation
RejectedAsError(q, s) ==
    Fired([q EXCEPT !.trace = Append(@, ThrowEv(q.trace[s]))], s, "Error")
\* the promise is rejected, the await throws and the async listener ends
\* with a rejection
Rejected(q, s) ==
    [q EXCEPT !.pc = "done", !.cur = 0, !.awaiting = @ \ {s},
              !.trace = Append(@, ThrowEv(q.trace[s]))]

\* the stage called at history entry s throws before it returns, without
\* having called its continuation
Throws(r, s) ==
    /\ s \in req[r].awaiting
    /\ req[r].pc = "await"
    /\ req[r].cur = s
    /\ req' = [req EXCEPT ![r] = Rejected(req[r], s)]
    /\ raised' = "Error"
    /\ UNCHANGED <<app, routerHeap, routeHeap, listening>>

\* a continuation called again after it was called
AgainEv(call, v) == [call EXCEPT !.e = "again", !.val = v]
Agains(tr) == { k \in 1..Len(tr) : tr[k].e = "again" }

\* faulty variant of FiredAgain: every call of a continuation takes the
\* listener on from the stage it waits for
FiredAgainAdvances(q, s, v) ==
    LET again == [q EXCEPT !.trace = Append(@, AgainEv(q.trace[s], v))]
    IN IF q.pc = "await" THEN Resume(again, v) ELSE again
\* resolve(v) of a promise that is already settled: nothing happens
FiredAgain(q, s, v) == [q EXCEPT !.trace = Append(@, AgainEv(q.trace[s], v))]

\* number of times continuations are called again for one request
MaxAgain == 2

\* the stage called at history entry s calls its continuation again
ContinueAgain(r, s, v) ==
    /\ s \in 1..Len(req[r].trace)
    /\ req[r].trace[s].e = "call"
    /\ s \notin req[r].awaiting
    /\ Cardinality(Agains(req[r].trace)) < MaxAgain
    /\ req' = [req EXCEPT ![r] = FiredAgain(req[r], s, v)]
    /\ UNCHANGED <<app, routerHeap, routeHeap, listening, raised>>

\* faulty variant of Continue: the listener serves one request at a time, a
\* continuation of a request is not taken up while an earlier request waits
ContinueInTurn(r, s, v) ==
    /\ s \in req[r].awaiting
    /\ r = "r2" => req["r1"].pc # "await"
    /\ req' = [req EXCEPT ![r] = Fired(req[r], s, v)]
    /\ UNCHANGED <<app, routerHeap, routeHeap, listening, raised>>

\* the stage called at history entry s fires its continuation with v
Continue(r, s, v) ==
    /\ s \in req[r].awaiting
    /\ req' = [req EXCEPT ![r] = Fired(req[r], s, v)]
    /\ UNCHANGED <<app, routerHeap, routeHeap, listening, raised>>

(***************************************************************************)
(* Specification: the setup calls, then listen, then one request           *)
(***************************************************************************)
\* the setup calls of main, with their arguments drawn from the given pools
Setup(paths, methods, mws, errMws) ==
    /\ ~listening
    /\ SetupSize < MaxSetup
    /\ \/ \E m \in mws : AppUse(m)
       \/ \E e \in errMws : AppUseForError(e)
       \/ \E r \in UserRouters : UseRouter(r)
       \/ \E r \in UserRouters, m \in mws : RouterUse(r, m)
       \/ \E r \in UserRouters, e \in errMws : RouterUseForError(r, e)
       \/ \E p \in paths, m \in methods, h \in Listeners : AppRoute(p, m, h)
       \/ \E r \in UserRouters, p \in paths, m \in methods, h \in Listeners :
             RouterRoute(r, p, m, h)
       \/ \E id \in DOMAIN routeHeap, m \in mws : RouteUse(id, m)
       \/ \E id \in DOMAIN routeHeap, e \in errMws : RouteUseForError(id, e)

\* one request, its continuations fired with the given values
Dispatch(r, urls, vals) ==
    \/ \E m \in Methods, u \in urls : Arrive(r, m, u)
    \/ \E s \in req[r].awaiting, v \in vals : Continue(r, s, v)

Next ==
    \/ Setup({PathA}, {"GET"}, Mws, ErrMws)
    \/ Listen
    \/ Dispatch("r1", Urls, ContVals)

Spec == Init /\ [][Next]_vars

\* every stage that was called fires its continuation, and the event loop then
\* resumes the listener
SpecLive ==
    Spec /\ WF_vars(\E s \in req["r1"].awaiting, v \in ContVals : Continue("r1", s, v))

\* the calls that put routes and routers into the registry
SetupRoutes(paths, methods) ==
    /\ ~listening
    /\ SetupSize < MaxSetup
    /\ \/ \E r \in UserRouters : UseRouter(r)
       \/ \E p \in paths, m \in methods, h \in Listeners : AppRoute(p, m, h)
       \/ \E r \in UserRouters, p \in paths, m \in methods, h \in Listeners :
             RouterRoute(r, p, m, h)

\* two patterns and two methods to register, no middlewares: a request is over
\* when the listener's first run returns
NextScan ==
    \/ SetupRoutes({PathA, PathB}, Methods)
    \/ Listen
    \/ \E m \in Methods, u \in Urls : Arrive("r1", m, u)

SpecScan == Init /\ [][NextScan]_vars

(***************************************************************************)
(* Properties                                                              *)
(***************************************************************************)
Rank(k) == CASE k = "app" -> 1 [] k = "router" -> 2 [] k = "route" -> 3

LevelOf(ev) == [k |-> ev.k, id |-> ev.id]

\* the routers whose Map holds the Route object id
Owners(id) ==
    { g \in RouterIds : \E i \in 1..Len(routerHeap[g].routes) : routerHeap[g].routes[i].val = id }

\* the three tiers of a request that matched the Route object id
TiersOf(id) == {AppLevel} \cup { RouterLevel(g) : g \in Owners(id) } \cup {RouteLevel(id)}

MwCalls(tr) == { k \in 1..Len(tr) : tr[k].e = "call" /\ tr[k].kind = "mw" }
ErrCalls(tr) == { k \in 1..Len(tr) : tr[k].e = "call" /\ tr[k].kind = "emw" }
HandlerCalls(tr) == { k \in 1..Len(tr) : tr[k].e = "handler" }
\* continuations fired with an error value by a middleware
MwErrors(tr) ==
    { k \in 1..Len(tr) : tr[k].e = "next" /\ tr[k].kind = "mw" /\ tr[k].val # Undefined }

\* C1: the handler of a matched request is invoked at most once, and only after
\* every middleware of the application, of the owning router and of the route
\* was called and fired its continuation without an error value.
C1_HandlerOnceAfterAllTiers ==
    \A r \in RIds :
        LET tr == req[r].trace IN
        /\ Cardinality(HandlerCalls(tr)) <= 1
        /\ \A h \in HandlerCalls(tr) :
              /\ \A b \in 1..h : tr[b].e = "next" => tr[b].val = Undefined
              /\ \A lv \in TiersOf(tr[h].id) :
                    \A i \in 1..Len(MiddlewaresOf(lv)) :
                        \E a \in 1..h, b \in 1..h :
                            /\ a < b
                            /\ tr[a] = CallEv("mw", lv, i, MiddlewaresOf(lv)[i], Undefined)
                            /\ tr[b] = NextEv(tr[a], Undefined)

\* a handler ran after an application middleware and two route middlewares
C1_Witness ==
    \E r \in RIds :
        LET tr == req[r].trace IN
        /\ req[r].pc = "done"
        /\ HandlerCalls(tr) # {}
        /\ Len(app.middlewares) >= 1
        /\ Len(routeHeap[req[r].route].middlewares) = 2

\* C2: the middlewares of a matched request are called tier by tier (application,
\* owning router, matched route) and inside a tier in list order, none skipped.
C2_TierAndRegistrationOrder ==
    \A r \in RIds :
        LET tr == req[r].trace IN
        /\ \A a \in MwCalls(tr), b \in MwCalls(tr) :
              a < b => \/ Rank(tr[a].k) < Rank(tr[b].k)
                       \/ LevelOf(tr[a]) = LevelOf(tr[b]) /\ tr[a].idx < tr[b].idx
        /\ \A b \in MwCalls(tr) :
              LET lv == LevelOf(tr[b]) IN
              /\ lv \in TiersOf(req[r].route)
              /\ tr[b].idx \in 1..Len(MiddlewaresOf(lv))
              /\ tr[b].fn = MiddlewaresOf(lv)[tr[b].idx]
              /\ \A lo \in TiersOf(req[r].route) :
                    \A i \in 1..Len(MiddlewaresOf(lo)) :
                        (Rank(lo.k) < Rank(lv.k) \/ (lo = lv /\ i < tr[b].idx))
                        => \E a \in MwCalls(tr) :
                              a < b /\ LevelOf(tr[a]) = lo /\ tr[a].idx = i

\* a request went through a middleware of each of the three tiers
C2_Witness ==
    \E r \in RIds :
        LET tr == req[r].trace IN
        /\ req[r].pc = "done"
        /\ \A k \in {"app", "router", "route"} : \E a \in MwCalls(tr) : tr[a].k = k

\* C3: once a middleware fired its continuation with an error value, no
\* middleware of any tier and no handler is called for that request.
C3_ErrorStopsPipeline ==
    \A r \in RIds :
        LET tr == req[r].trace IN
        \A b \in MwErrors(tr) :
            \A c \in 1..Len(tr) :
                c > b => ~(tr[c].e = "call" /\ tr[c].kind = "mw") /\ tr[c].e # "handler"

\* the first of two application middlewares signalled an error, the request is over
C3_Witness ==
    \E r \in RIds :
        LET tr == req[r].trace IN
        /\ req[r].pc = "done"
        /\ \E b \in MwErrors(tr) :
              /\ tr[b].k = "app"
              /\ tr[b].idx < Len(app.middlewares)
              /\ Len(routeHeap[req[r].route].middlewares) >= 1

\* continuations fired without an error value by an error middleware
Resolutions(tr) ==
    { k \in 1..Len(tr) : tr[k].e = "next" /\ tr[k].kind = "emw" /\ tr[k].val = Undefined }

\* C4: once an error middleware fired its continuation without an error value
\* the listener has returned: nothing is called for that request afterwards.
C4_ResolutionEndsPipeline ==
    \A r \in RIds :
        LET tr == req[r].trace IN
        \A b \in Resolutions(tr) :
            /\ req[r].pc = "done"
            /\ \A c \in 1..Len(tr) : c > b => tr[c].e \notin {"call", "handler"}

\* the first of two error middlewares resolved the error of the first of two middlewares
C4_Witness ==
    \E r \in RIds :
        LET tr == req[r].trace IN
        \E b \in Resolutions(tr) :
            /\ tr[b].idx = 1
            /\ Len(ErrMiddlewaresOf(LevelOf(tr[b]))) = 2
            /\ req[r].idx < Len(MiddlewaresOf(LevelOf(tr[b])))

\* C5: an error middleware is called only after a middleware of its own tier
\* fired its continuation with an error value in the same request.
C5_ErrorsAreTierLocal ==
    \A r \in RIds :
        LET tr == req[r].trace IN
        \A c \in ErrCalls(tr) :
            LET lv == LevelOf(tr[c]) IN
            /\ \E b \in MwErrors(tr) : b < c /\ LevelOf(tr[b]) = lv
            /\ \A b \in MwErrors(tr) : LevelOf(tr[b]) = lv
            /\ tr[c].idx \in 1..Len(ErrMiddlewaresOf(lv))
            /\ tr[c].fn = ErrMiddlewaresOf(lv)[tr[c].idx]

\* a route middleware signalled an error, the route's error middleware was called,
\* the application has an error middleware of its own
C5_Witness ==
    \E r \in RIds :
        LET tr == req[r].trace IN
        /\ app.errMiddlewares # <<>>
        /\ \E c \in ErrCalls(tr) : tr[c].k = "route"

\* history entries at which the error middlewares of the tier ran out: a
\* continuation carried an error value and no error middleware is left for it
Exhaustions(tr) ==
    { b \in 1..Len(tr) :
        /\ tr[b].e = "next"
        /\ tr[b].val # Undefined
        /\ \/ tr[b].kind = "mw" /\ ErrMiddlewaresOf(LevelOf(tr[b])) = <<>>
           \/ tr[b].kind = "emw" /\ tr[b].idx = Len(ErrMiddlewaresOf(LevelOf(tr[b]))) }

\* C6: when the error middlewares of the tier run out, the listener has returned,
\* the handler was not called and the listener wrote no status and did not end
\* the response.
C6_UnrecoveredWritesNothing ==
    \A r \in RIds :
        Exhaustions(req[r].trace) # {} =>
            /\ req[r].pc = "done"
            /\ HandlerCalls(req[r].trace) = {}
            /\ req[r].status = 0
            /\ ~req[r].ended
            /\ \A k \in 1..Len(req[r].trace) : req[r].trace[k].e \notin {"writeHead", "end"}

\* two error middlewares both passed the error on
C6_Witness ==
    \E r \in RIds :
        LET tr == req[r].trace IN
        \E b \in Exhaustions(tr) : tr[b].kind = "emw" /\ tr[b].idx = 2

\* some route of an attached router has this method and a pattern matching this url
SomeRouteMatches(method, url) ==
    \E g \in 1..Len(app.routers) :
        \E i \in 1..Len(routerHeap[app.routers[g]].routes) :
            LET rt == routeHeap[routerHeap[app.routers[g]].routes[i].val] IN
            Test(rt.path, url) /\ rt.method = method

\* C7: a request no route matches gets status 404 and an empty body from the
\* listener, which ends the response and calls nothing.
C7_NoMatchIs404 ==
    \A r \in RIds :
        (req[r].pc # "idle" /\ ~SomeRouteMatches(req[r].method, req[r].url)) =>
            /\ req[r].pc = "done"
            /\ req[r].status = 404
            /\ req[r].ended
            /\ req[r].trace = <<WriteHeadEv(404), EndEv("")>>

\* a 404 although a route with another method has a matching pattern and the
\* application has middlewares and error middlewares
C7_Witness ==
    \E r \in RIds :
        /\ req[r].pc = "done"
        /\ req[r].status = 404
        /\ app.middlewares # <<>>
        /\ app.errMiddlewares # <<>>
        /\ \E id \in DOMAIN routeHeap :
              Owners(id) # {} /\ Test(routeHeap[id].path, req[r].url)

\* the positions (router index, entry index) of the scan, in scan order
ScanPositions ==
    { p \in (1..Len(app.routers)) \X (1..MaxSetup) :
        p[2] <= Len(routerHeap[app.routers[p[1]]].routes) }
RouteAt(p) == routerHeap[app.routers[p[1]]].routes[p[2]].val
Before(p, q) == p[1] < q[1] \/ (p[1] = q[1] /\ p[2] < q[2])
Fits(id, method, url) == Test(routeHeap[id].path, url) /\ routeHeap[id].method = method

\* C8 as stated: the route a request is dispatched to is the first with the
\* request's method and a matching pattern, taking the routers in the order
\* attached and the routes of a router in the order of the route() calls that
\* created them.
C8_FirstInRegistrationOrder ==
    \A r \in RIds :
        LET q == req[r] IN
        q.route # NoRoute =>
            \A o \in ScanPositions :
                (app.routers[o[1]] = q.router /\ RouteAt(o)[3] < q.route[3])
                    => ~Fits(RouteAt(o), q.method, q.url)

\* C8: the route a request is dispatched to is the first with the request's
\* method and a matching pattern, taking the routers in the order attached and
\* the routes of a router in the order of their keys in the Map (a Route that
\* replaced another has its place); without such a route none is chosen.
C8_FirstMatchWins ==
    \A r \in RIds :
        LET q == req[r] IN
        q.pc # "idle" =>
            IF q.route = NoRoute
            THEN \A p \in ScanPositions : ~Fits(RouteAt(p), q.method, q.url)
            ELSE \E p \in ScanPositions :
                    /\ RouteAt(p) = q.route
                    /\ app.routers[p[1]] = q.router
                    /\ Fits(q.route, q.method, q.url)
                    /\ \A o \in ScanPositions :
                          Before(o, p) => ~Fits(RouteAt(o), q.method, q.url)

\* the request went to a route of the second router, past a route of the default
\* router whose pattern matches but whose method differs
C8_Witness ==
    \E r \in RIds :
        LET q == req[r] IN
        /\ q.route # NoRoute
        /\ q.router = 1
        /\ \E p \in ScanPositions :
              /\ p[1] = 1
              /\ Test(routeHeap[RouteAt(p)].path, q.url)
              /\ routeHeap[RouteAt(p)].method # q.method

\* the four ways a request can end
Handled(r) == HandlerCalls(req[r].trace) # {}
NotFound404(r) == \E k \in 1..Len(req[r].trace) : req[r].trace[k].e = "writeHead"
ErrorResolved(r) == Resolutions(req[r].trace) # {}
ErrorUnrecovered(r) == Exhaustions(req[r].trace) # {}
Outcomes(r) ==
    { o \in {"handled", "notFound", "resolved", "unrecovered"} :
        CASE o = "handled" -> Handled(r)
          [] o = "notFound" -> NotFound404(r)
          [] o = "resolved" -> ErrorResolved(r)
          [] o = "unrecovered" -> ErrorUnrecovered(r) }

\* C9: a request never has two of the four outcomes (handler called, error
\* resolved, error unrecovered, 404 written), it has one when the listener has
\* returned, and a request some route matches never gets the 404.
C9_ExactlyOneOutcome ==
    \A r \in RIds :
        /\ Cardinality(Outcomes(r)) <= 1
        /\ req[r].pc = "done" => Cardinality(Outcomes(r)) = 1
        /\ (req[r].pc # "idle" /\ SomeRouteMatches(req[r].method, req[r].url))
              => ~NotFound404(r)

\* a matched request ended with its error resolved by the second error middleware
C9_Witness ==
    \E r \in RIds :
        /\ req[r].pc = "done"
        /\ SomeRouteMatches(req[r].method, req[r].url)
        /\ \E b \in Resolutions(req[r].trace) : req[r].trace[b].idx = 2

\* history entries of calls whose continuation has not fired before entry c
OpenBefore(tr, c) ==
    { a \in 1..(c - 1) :
        /\ tr[a].e = "call"
        /\ ~\E b \in (a + 1)..(c - 1) :
              tr[b].e = "next" /\ [tr[b] EXCEPT !.e = "call", !.val = tr[a].val] = tr[a] }

\* C10: a middleware or error middleware of a request is called only when the
\* continuation of every stage called before it for that request has fired, and
\* at most one stage of a request is waiting for its continuation.
C10_StagesAreSequential ==
    \A r \in RIds :
        LET tr == req[r].trace IN
        /\ Cardinality(req[r].awaiting) <= 1
        /\ \A c \in 1..Len(tr) :
              tr[c].e \in {"call", "handler"} => OpenBefore(tr, c) = {}
        /\ req[r].pc = "await" <=> req[r].awaiting # {}

\* a request waits in the second tier it entered
C10_Witness ==
    \E r \in RIds :
        LET tr == req[r].trace IN
        /\ req[r].pc = "await"
        /\ \E a \in MwCalls(tr) : Rank(tr[a].k) < Rank(tr[Len(tr)].k)

\* C11: when every stage called for a request fires its continuation, the
\* listener returns for that request (after the handler call, after the error
\* middlewares, or after the 404).
C11_PipelineTerminates ==
    \A r \in RIds : (req[r].pc = "await") ~> (req[r].pc = "done")

\* a request is over after three stages fired their continuations
C11_Witness ==
    \E r \in RIds :
        /\ req[r].pc = "done"
        /\ Cardinality({ k \in 1..Len(req[r].trace) : req[r].trace[k].e = "next" }) >= 3

(***************************************************************************)
(* Route lookup: Router.findRoute and Simpress.findRoute                   *)
(***************************************************************************)
\* number of Route objects the registry specification creates
MaxRoutes == 3

\* Map.prototype.get, with the caller's route ? route : null
MapGet(entries, key) ==
    IF \E i \in 1..Len(entries) : entries[i].key = key
    THEN entries[CHOOSE i \in 1..Len(entries) : entries[i].key = key].val
    ELSE NoRoute

\* Router.findRoute
RouterFindRoute(r, path, method) ==
    MapGet(routerHeap[r].routes, RouteKey(method, ToRegExp(path)))

\* faulty variant of FindFrom: only this._routers[0] is searched
FindInDefaultRouter(routers, k, key) ==
    IF k > 1 THEN NoRoute ELSE MapGet(routerHeap[routers[1]].routes, key)

\* for (const router of this._routers): the first router that holds the key
RECURSIVE FindFrom(_, _, _)
FindFrom(routers, k, key) ==
    IF k > Len(routers) THEN NoRoute
    ELSE LET route == MapGet(routerHeap[routers[k]].routes, key)
         IN IF route # NoRoute THEN route ELSE FindFrom(routers, k + 1, key)

\* Simpress.findRoute
AppFindRoute(path, method) ==
    FindFrom(app.routers, 1, RouteKey(method, ToRegExp(path)))

\* path arguments, methods and listeners of the registry specification
PathAB == RePath([alts |-> << <<Chr("a")>>, <<Chr("b")>> >>])
PathOnlyB == RePath([alts |-> << <<Chr("b")>> >>])
RegPaths == {PathAB, PathOnlyB}
RegMethods == {"GET", "GET|a"}
RegListeners == {"h1", "h2"}
\* a concrete path that the pattern of PathOnlyB matches
ConcreteB == StrPath(<<"b">>)

Registration(paths, methods, listeners) ==
    \/ /\ ~listening
       /\ \E r \in UserRouters : UseRouter(r)
    \/ /\ ~listening
       /\ Cardinality(DOMAIN routeHeap) < MaxRoutes
       /\ \E p \in paths, m \in methods, l \in listeners : AppRoute(p, m, l)
    \/ /\ ~listening
       /\ Cardinality(DOMAIN routeHeap) < MaxRoutes
       /\ \E r \in UserRouters, p \in paths, m \in methods, l \in listeners :
              RouterRoute(r, p, m, l)

NextRegistry == Registration(RegPaths, RegMethods, RegListeners)

SpecRegistry == Init /\ [][NextRegistry]_vars

\* the Routes a router's route() created for a method and a pattern
CreatedFor(r, method, re) ==
    { id \in DOMAIN routeHeap :
        /\ id[1] = r
        /\ routeHeap[id].method = method
        /\ routeHeap[id].path = re }

\* the Route of the most recent route() call of router r with (method, pattern)
LastRegistered(r, method, re) ==
    IF CreatedFor(r, method, re) = {} THEN NoRoute
    ELSE CHOOSE id \in CreatedFor(r, method, re) :
             \A other \in CreatedFor(r, method, re) : other[3] <= id[3]

\* C12: on every registry, find(path, method) is the Route of the most recent
\* register call with that (method, path), not-found when there was none, and
\* no key is held twice.
C12_FindReturnsLastRegistered ==
    \A r \in RouterIds :
        /\ \A p \in RegPaths, m \in RegMethods :
               RouterFindRoute(r, p, m) = LastRegistered(r, m, ToRegExp(p))
        /\ \A i, j \in 1..Len(routerHeap[r].routes) :
               routerHeap[r].routes[i].key = routerHeap[r].routes[j].key => i = j

\* a router that precedes r in this._routers holds a Route under key
Shadowed(r, key) ==
    \E k \in 1..Len(app.routers) :
        /\ MapGet(routerHeap[app.routers[k]].routes, key) # NoRoute
        /\ \E n \in (k + 1)..Len(app.routers) : app.routers[n] = r

\* the listener of the Route that Simpress.findRoute returns
FoundListener(path, method) ==
    IF AppFindRoute(path, method) = NoRoute THEN "null"
    ELSE routeHeap[AppFindRoute(path, method)].listener

\* C13 as stated: after a route() call on the application or on an attached
\* router, the application's findRoute with the same path and method returns
\* the Route with the listener just registered.
C13_RegisterThenFind ==
    [][\A r \in RouterIds, p \in RegPaths, m \in RegMethods, l \in RegListeners :
          (Includes(app.routers, r) /\ RouterRoute(r, p, m, l))
              => FoundListener(p, m)' = l]_vars

\* C13: the same, for a route() call on the application, or on an attached
\* router when no router attached before it holds a Route under the same key.
C13_RegisterThenFindUnshadowed ==
    [][\A r \in RouterIds, p \in RegPaths, m \in RegMethods, l \in RegListeners :
          (/\ Includes(app.routers, r)
           /\ ~Shadowed(r, RouteKey(m, ToRegExp(p)))
           /\ RouterRoute(r, p, m, l))
              => FoundListener(p, m)' = l]_vars

\* the attached router holds a Route that the application's findRoute returns,
\* next to a Route of the default router
C13_Witness ==
    \E p \in RegPaths, m \in RegMethods :
        /\ Includes(app.routers, 1)
        /\ AppFindRoute(p, m) # NoRoute
        /\ AppFindRoute(p, m)[1] = 1
        /\ routerHeap[0].routes # <<>>

\* C14: within one router two route() calls address the same entry exactly
\* when their methods are equal and their pattern sources are equal.
C14_SameEntryIffSamePair ==
    \A a, b \in DOMAIN routeHeap :
        a[1] = b[1] =>
            ((a[2] = b[2]) <=>
                (/\ routeHeap[a].method = routeHeap[b].method
                 /\ Source(routeHeap[a].path) = Source(routeHeap[b].path)))

\* path arguments findRoute is called with
FindPaths == RegPaths \cup {ConcreteB}

\* some route() call of router r had this method and this pattern source
RegisteredWith(r, method, source) ==
    \E id \in DOMAIN routeHeap :
        /\ id[1] = r
        /\ routeHeap[id].method = method
        /\ Source(routeHeap[id].path) = source

\* C16: findRoute returns a Route only if one was registered with the same
\* method and the same path specification; a concrete path that a registered
\* pattern matches is not found.
C16_FindIsExactLookup ==
    \A r \in RouterIds, p \in FindPaths, m \in RegMethods :
        /\ RouterFindRoute(r, p, m) # NoRoute
               => RegisteredWith(r, m, Source(ToRegExp(p)))
        /\ AppFindRoute(p, m) # NoRoute
               => \E k \in 1..Len(app.routers) :
                      RegisteredWith(app.routers[k], m, Source(ToRegExp(p)))

(***************************************************************************)
(* The middleware lists                                                    *)
(***************************************************************************)
NoDuplicates(list) ==
    \A i, j \in 1..Len(list) : list[i] = list[j] => i = j

\* a use / useForError call left the list alone or pushed one absent element
KeptOrPushed(old, new) ==
    \/ new = old
    \/ /\ Len(new) = Len(old) + 1
       /\ SubSeq(new, 1, Len(old)) = old
       /\ ~Includes(old, new[Len(new)])

\* C15: at the application, at every router and at every route, the
\* middleware list and the error-middleware list hold no element twice, and a
\* step changes a list only by pushing one element that was not in it.
C15_ListsAppendOnlyNoDuplicates ==
    /\ [](/\ NoDuplicates(app.middlewares)
          /\ NoDuplicates(app.errMiddlewares)
          /\ \A r \in RouterIds :
                 /\ NoDuplicates(routerHeap[r].middlewares)
                 /\ NoDuplicates(routerHeap[r].errMiddlewares)
          /\ \A id \in DOMAIN routeHeap :
                 /\ NoDuplicates(routeHeap[id].middlewares)
                 /\ NoDuplicates(routeHeap[id].errMiddlewares))
    /\ [][/\ KeptOrPushed(app.middlewares, app.middlewares')
          /\ KeptOrPushed(app.errMiddlewares, app.errMiddlewares')
          /\ \A r \in RouterIds :
                 /\ KeptOrPushed(routerHeap[r].middlewares, routerHeap[r].middlewares')
                 /\ KeptOrPushed(routerHeap[r].errMiddlewares,
                                 routerHeap[r].errMiddlewares')
          /\ \A id \in DOMAIN routeHeap :
                 /\ KeptOrPushed(routeHeap[id].middlewares, routeHeap[id].middlewares')
                 /\ KeptOrPushed(routeHeap[id].errMiddlewares,
                                 routeHeap[id].errMiddlewares')]_vars

\* both middlewares were added at the application in the order m2, m1, and a
\* route and a router hold lists of their own
C15_Witness ==
    /\ app.middlewares = <<"m2", "m1">>
    /\ \E id \in DOMAIN routeHeap : routeHeap[id].errMiddlewares # <<>>
    /\ \E r \in RouterIds : routerHeap[r].middlewares # <<>>

(***************************************************************************)
(* String paths                                                            *)
(***************************************************************************)
\* string paths and request urls of the matching specification
MatchTexts == { <<"/", "a">>, <<"/", ".">> }
MatchUrls == { <<"/", "a">>, <<"/", "a", "/">>, <<"/", "b">>, <<"/", "b", "?">>,
               <<"/", "a", "/", "c">> }

NextMatch ==
    \/ /\ ~listening
       /\ Cardinality(DOMAIN routeHeap) < MaxRoutes
       /\ \E text \in MatchTexts : AppRoute(StrPath(text), "GET", "h1")
    \/ Listen
    \/ \E m \in Methods, u \in MatchUrls : Arrive("r1", m, u)

SpecMatch == Init /\ [][NextMatch]_vars

\* url is the text, or the text followed by one "/"
LiteralMatch(text, url) == url = text \/ url = text \o <<"/">>

\* the Routes the scan of the listener visits
ScannedRoutes ==
    UNION { { routerHeap[app.routers[k]].routes[i].val :
                i \in 1..Len(routerHeap[app.routers[k]].routes) } :
            k \in 1..Len(app.routers) }

\* C17: a request is given to a route registered with a string path only if
\* its url is that string, optionally followed by one "/", and it is given to
\* a route whenever some scanned route of its method was registered with such
\* a string.
C17_LiteralMatch ==
    \A r \in RIds :
        req[r].pc # "idle" =>
            /\ req[r].route # NoRoute =>
                   \E text \in MatchTexts :
                       /\ routeHeap[req[r].route].path = FromString(text)
                       /\ LiteralMatch(text, req[r].url)
            /\ (\E id \in ScannedRoutes, text \in MatchTexts :
                    /\ routeHeap[id].method = req[r].method
                    /\ routeHeap[id].path = FromString(text)
                    /\ LiteralMatch(text, req[r].url))
                   => req[r].route # NoRoute

(***************************************************************************)
(* The middlewares of the library and of main                              *)
(***************************************************************************)
\* the ends a quantifier at atom i may take so that the rest of alt matches
PlusEnds(alt, i, pos, url) ==
    { k \in (pos + 1)..Len(url) :
        /\ \A n \in (pos + 1)..k : InClass(alt[i].c, url[n])
        /\ MatchEnds(alt, i + 1, k, url) # {} }

\* faulty variant of GreedyEnd: the quantifier takes as little as it can
LazyEnd(alt, i, pos, url) ==
    CHOOSE k \in PlusEnds(alt, i, pos, url) : \A n \in PlusEnds(alt, i, pos, url) : k <= n

\* + is greedy: the longest run after which the rest of the pattern matches
GreedyEnd(alt, i, pos, url) ==
    CHOOSE k \in PlusEnds(alt, i, pos, url) : \A n \in PlusEnds(alt, i, pos, url) : n <= k

\* the named groups of the match of atoms i.. of alt at pos (there is a match)
RECURSIVE Captures(_, _, _, _)
Captures(alt, i, pos, url) ==
    IF i > Len(alt) THEN <<>>
    ELSE LET a == alt[i] IN
         CASE a.t \in {"bol", "eol"} -> Captures(alt, i + 1, pos, url)
           [] a.t \in {"chr", "any"} -> Captures(alt, i + 1, pos + 1, url)
           [] a.t = "opt" ->
                IF /\ pos < Len(url)
                   /\ url[pos + 1] = a.c
                   /\ MatchEnds(alt, i + 1, pos + 1, url) # {}
                THEN Captures(alt, i + 1, pos + 1, url)
                ELSE Captures(alt, i + 1, pos, url)
           [] a.t = "plus" ->
                LET e == GreedyEnd(alt, i, pos, url)
                IN <<[name |-> a.n, value |-> SubSeq(url, pos + 1, e)]>>
                       \o Captures(alt, i + 1, e, url)

\* the pattern has a named group: matches.groups is an object
HasNamedGroups(re) ==
    \E k \in 1..Len(re.alts) : \E i \in 1..Len(re.alts[k]) : re.alts[k][i].t = "plus"

\* where a match of re in url starts and which alternative it takes
MatchHits(re, url) ==
    { h \in (0..Len(url)) \X (1..Len(re.alts)) : MatchEnds(re.alts[h[2]], 1, h[1], url) # {} }

\* String.prototype.match with a RegExp without the g flag: the leftmost match,
\* the first alternative that matches there; null when there is none
Match(re, url) ==
    IF MatchHits(re, url) = {} THEN [matched |-> FALSE, groups |-> <<>>]
    ELSE LET h == CHOOSE x \in MatchHits(re, url) :
                      \A y \in MatchHits(re, url) :
                          x[1] < y[1] \/ (x[1] = y[1] /\ x[2] <= y[2])
         IN [matched |-> TRUE, groups |-> Captures(re.alts[h[2]], 1, h[1], url)]

\* applyPathParamsParser: req.pathParams = matches && matches.groups ? matches.groups : null
ApplyPathParamsParser(q) ==
    LET matches == IF q.url # <<>> THEN Match(q.pathRegex, q.url)
                   ELSE [matched |-> FALSE, groups |-> <<>>]
    IN [q EXCEPT !.pathParams =
            IF matches.matched /\ HasNamedGroups(q.pathRegex)
            THEN [state |-> "groups", groups |-> matches.groups]
            ELSE [state |-> "null", groups |-> <<>>]]

\* JSON.parse on the request payloads of the model: ok is FALSE when it throws
JsonParse(text) ==
    CASE text = "null" -> [ok |-> TRUE, val |-> [t |-> "null", truthy |-> FALSE, json |-> "null"]]
      [] text = "0" -> [ok |-> TRUE, val |-> [t |-> "number", truthy |-> FALSE, json |-> "0"]]
      [] text = "5" -> [ok |-> TRUE, val |-> [t |-> "number", truthy |-> TRUE, json |-> "5"]]
      [] text = "\"s\"" ->
             [ok |-> TRUE, val |-> [t |-> "string", truthy |-> TRUE, json |-> "\"s\""]]
      [] text = "[1]" -> [ok |-> TRUE, val |-> [t |-> "array", truthy |-> TRUE, json |-> "[1]"]]
      [] text = "{ \"a\": 1 }" ->
             [ok |-> TRUE, val |-> [t |-> "object", truthy |-> TRUE, json |-> "{\"a\":1}"]]
      [] text = "{ \"name\": \"ann\", \"nick\": \"a-n\" }" ->
             [ok |-> TRUE, val |-> [t |-> "object", truthy |-> TRUE,
                                    json |-> "{\"name\":\"ann\",\"nick\":\"a-n\"}"]]
      [] text = "{ \"name\": \"a1\", \"nick\": \"nn\" }" ->
             [ok |-> TRUE, val |-> [t |-> "object", truthy |-> TRUE,
                                    json |-> "{\"name\":\"a1\",\"nick\":\"nn\"}"]]
      [] OTHER -> [ok |-> FALSE, val |-> NoValue]

\* typeof
TypeOf(val) == IF val.t \in {"null", "array", "object"} THEN "object" ELSE val.t

\* the chunks the request stream delivers the payload in
ChunksOf(payload) ==
    CASE payload = "" -> <<>>
      [] payload = "{ \"a\": 1 }" -> <<"{ \"a\"", ": 1 }">>
      [] OTHER -> <<payload>>

RECURSIVE Concat(_)
\* Buffer.concat(body).toString()
Concat(chunks) == IF chunks = <<>> THEN "" ELSE Head(chunks) \o Concat(Tail(chunks))

\* faulty variant of ParseBody: only the last chunk is parsed
ParseBodyLastChunk(q, chunks) ==
    IF chunks # <<>> /\ JsonParse(chunks[Len(chunks)]).ok
    THEN [q EXCEPT !.body = JsonParse(chunks[Len(chunks)]).val]
    ELSE q
\* if (body.length) try { req.body = JSON.parse(Buffer.concat(body).toString()) } catch {}
ParseBody(q, chunks) ==
    IF chunks # <<>> /\ JsonParse(Concat(chunks)).ok
    THEN [q EXCEPT !.body = JsonParse(Concat(chunks)).val]
    ELSE q

\* applyJsonBodyParser once the whole payload was received
ApplyJsonBodyParser(q) == ParseBody(q, ChunksOf(q.payload))

ErrInvalidRequestBody == "ErrInvalidRequestBody"
InvalidRequestBodyMessage == "{\"message\":\"invalid request body\"}"

\* faulty variant of ValidatorResult: only the type of the body is tested
ValidatorTypeOnly(q) ==
    IF TypeOf(q.body) # "object" THEN ErrInvalidRequestBody ELSE Undefined

\* applyJsonBodyValidator: the value its continuation is fired with
ValidatorResult(q) ==
    IF ~q.body.truthy \/ TypeOf(q.body) # "object" THEN ErrInvalidRequestBody ELSE Undefined

\* applyMiddlewareErrorsHandler: the request after it and the value it passes on
ApplyMiddlewareErrorsHandler(q, err) ==
    IF err # ErrInvalidRequestBody THEN [q |-> q, v |-> err]
    ELSE [q |-> [q EXCEPT !.status = 400, !.sent = InvalidRequestBodyMessage,
                          !.ended = TRUE],
          v |-> Undefined]

LibStages == {"applyJsonBodyParser", "applyPathParamsParser", "applyJsonBodyValidator",
              "applyMiddlewareErrorsHandler"}

\* what the library stage called at history entry s does
StageOutcome(q, s) ==
    LET fn == q.trace[s].fn IN
    CASE fn = "applyJsonBodyParser" -> [q |-> ApplyJsonBodyParser(q), v |-> Undefined]
      [] fn = "applyPathParamsParser" -> [q |-> ApplyPathParamsParser(q), v |-> Undefined]
      [] fn = "applyJsonBodyValidator" -> [q |-> q, v |-> ValidatorResult(q)]
      [] fn = "applyMiddlewareErrorsHandler" ->
             ApplyMiddlewareErrorsHandler(q, q.trace[s].val)

\* the library stage called at history entry s runs and fires its continuation
RunStage(r, s) ==
    /\ s \in req[r].awaiting
    /\ req[r].trace[s].fn \in LibStages
    /\ req' = [req EXCEPT ![r] =
                 Fired(StageOutcome(req[r], s).q, s, StageOutcome(req[r], s).v)]
    /\ UNCHANGED <<app, routerHeap, routeHeap, listening, raised>>

\* a request with a payload is delivered to the listener
ArriveWith(r, method, url, payload) ==
    /\ listening
    /\ req[r].pc = "idle"
    /\ req' = [req EXCEPT ![r] = Listener([@ EXCEPT !.payload = payload], method, url)]
    /\ routeHeap' = Scanned(method, url)
    /\ UNCHANGED <<app, routerHeap, listening, raised>>

(***************************************************************************)
(* Path parameters                                                         *)
(***************************************************************************)
\* /\/users\/(?<id>\d+)/ and the pattern of main, /^\/users\/(?<id>\d+)\/?/
UsersAtoms == <<Chr("/"), Chr("u"), Chr("s"), Chr("e"), Chr("r"), Chr("s"), Chr("/")>>
UsersIdPath == RePath([alts |-> << UsersAtoms \o <<Plus("d", "id")>> >>])
UsersIdMainPath ==
    RePath([alts |-> << <<Bol>> \o UsersAtoms \o <<Plus("d", "id"), Opt("/")>> >>])
UsersUrl == <<"/", "u", "s", "e", "r", "s", "/">>
Url42 == UsersUrl \o <<"4", "2">>
UrlAbc == UsersUrl \o <<"a", "b", "c">>
ParamUrls == {Url42, UrlAbc, UsersUrl \o <<"7", "/">>}

NextParams ==
    \/ /\ ~listening
       /\ SetupSize < MaxSetup
       /\ \/ AppUse("applyPathParamsParser")
          \/ \E p \in {UsersIdPath, UsersIdMainPath}, m \in Methods : AppRoute(p, m, "h1")
          \/ \E id \in DOMAIN routeHeap : RouteUse(id, "applyPathParamsParser")
    \/ Listen
    \/ \E m \in Methods, u \in ParamUrls : Arrive("r1", m, u)
    \/ \E s \in req["r1"].awaiting : RunStage("r1", s)

SpecParams == Init /\ [][NextParams]_vars

\* applyPathParamsParser fired its continuation for the request
ParamsParsed(q) ==
    \E k \in 1..Len(q.trace) :
        q.trace[k].e = "next" /\ q.trace[k].fn = "applyPathParamsParser"

\* C18: with a GET route of pattern /users/(?<id>\d+) in the scan, GET
\* /users/42 is given to a route and its path parameters are id = "42" once
\* the parser ran; GET /users/abc is given to no such route.
C18_UsersIdParameter ==
    \A r \in RIds :
        LET q == req[r] IN
        (/\ q.pc # "idle"
         /\ q.method = "GET"
         /\ \E id \in ScannedRoutes :
                routeHeap[id].method = "GET" /\ routeHeap[id].path = UsersIdPath.re)
            => /\ q.url = Url42 =>
                   /\ q.route # NoRoute
                   /\ ParamsParsed(q) =>
                          q.pathParams =
                              [state |-> "groups",
                               groups |-> <<[name |-> "id", value |-> <<"4", "2">>]>>]
               /\ q.url = UrlAbc => q.route = NoRoute

\* GET /users/42 went to the route of pattern /users/(?<id>\d+) and the parser ran
C18_Witness ==
    \E r \in RIds :
        /\ req[r].url = Url42
        /\ req[r].route # NoRoute
        /\ routeHeap[req[r].route].path = UsersIdPath.re
        /\ ParamsParsed(req[r])
        /\ req[r].pc = "done"

(***************************************************************************)
(* POST /echo of main                                                      *)
(***************************************************************************)
EchoPath == StrPath(<<"/", "e", "c", "h", "o">>)
EchoUrls == { <<"/", "e", "c", "h", "o">> }
\* request payloads: none, malformed, and JSON texts of each kind of value
Payloads == {"", "{", "null", "0", "5", "\"s\"", "[1]", "{ \"a\": 1 }"}

NextEcho ==
    \/ /\ ~listening
       /\ SetupSize < MaxSetup
       /\ \/ \E m \in {"applyJsonBodyParser", "applyJsonBodyValidator"} : AppUse(m)
          \/ AppRoute(EchoPath, "POST", "echo")
          \/ \E id \in DOMAIN routeHeap : RouteUse(id, "applyJsonBodyValidator")
          \/ \E id \in DOMAIN routeHeap : RouteUseForError(id, "applyMiddlewareErrorsHandler")
    \/ Listen
    \/ \E m \in Methods, u \in EchoUrls, b \in Payloads : ArriveWith("r1", m, u, b)
    \/ \E s \in req["r1"].awaiting : RunStage("r1", s)

SpecEcho == Init /\ [][NextEcho]_vars

\* the request went to a route set up as POST /echo is in main: the body
\* parser at the application, the validator and the error handler at the route
EchoOfMain(q) ==
    /\ q.route # NoRoute
    /\ q.method = "POST"
    /\ routeHeap[q.route].listener = "echo"
    /\ routeHeap[q.route].middlewares = <<"applyJsonBodyValidator">>
    /\ routeHeap[q.route].errMiddlewares = <<"applyMiddlewareErrorsHandler">>
    /\ app.middlewares = <<"applyJsonBodyParser">>
    /\ routerHeap[q.router].middlewares = <<>>

\* the payload is JSON text of an object (typeof 'object' and not null)
ObjectPayload(text) ==
    /\ text # ""
    /\ JsonParse(text).ok
    /\ JsonParse(text).val.t \in {"object", "array"}

\* C19: a POST to the /echo route of main ends with 400 and the message
\* "invalid request body" without the handler when the body is absent,
\* malformed or not an object, and with the handler called and 200 and the
\* body when it is an object.
C19_EchoValidatesBody ==
    \A r \in RIds :
        LET q == req[r] IN
        (q.pc = "done" /\ EchoOfMain(q)) =>
            IF ObjectPayload(q.payload)
            THEN /\ Cardinality(HandlerCalls(q.trace)) = 1
                 /\ q.status = 200
                 /\ q.sent = JsonParse(q.payload).val.json
            ELSE /\ HandlerCalls(q.trace) = {}
                 /\ q.status = 400
                 /\ q.sent = InvalidRequestBodyMessage

\* the body null went through the parser and was refused by the validator,
\* and the error handler of the route answered
C19_Witness ==
    \E r \in RIds :
        /\ req[r].pc = "done"
        /\ EchoOfMain(req[r])
        /\ req[r].payload = "null"
        /\ req[r].body.t = "null"
        /\ req[r].status = 400
        /\ ErrCalls(req[r].trace) # {}

(***************************************************************************)
(* Error values                                                            *)
(***************************************************************************)
\* values a continuation is fired with when the error value matters
ErrVals == {Undefined, "E1", "E2"}

NextErrors ==
    \/ Setup({PathA}, {"GET"}, {"m1"}, ErrMws)
    \/ Listen
    \/ Dispatch("r1", { <<"/", "a">> }, ErrVals)

SpecErrors == Init /\ [][NextErrors]_vars

\* C20: an error middleware is called right after the stage before it fired
\* its continuation, with the value that stage passed: the failing middleware
\* for the first error middleware of the tier, error middleware i for error
\* middleware i + 1; the error middlewares are called in registration order.
C20_ErrorValuePassedAlong ==
    \A r \in RIds :
        LET tr == req[r].trace IN
        \A c \in ErrCalls(tr) :
            /\ c > 1
            /\ tr[c - 1].e = "next"
            /\ tr[c - 1].val = tr[c].val
            /\ LevelOf(tr[c - 1]) = LevelOf(tr[c])
            /\ tr[c].fn = ErrMiddlewaresOf(LevelOf(tr[c]))[tr[c].idx]
            /\ IF tr[c].idx = 1 THEN tr[c - 1].kind = "mw"
               ELSE tr[c - 1].kind = "emw" /\ tr[c - 1].idx = tr[c].idx - 1

\* the second error middleware was called with a value that differs from the
\* one the failing middleware passed
C20_Witness ==
    \E r \in RIds :
        LET tr == req[r].trace IN
        \E c \in ErrCalls(tr), d \in ErrCalls(tr) :
            /\ tr[c].idx = 1
            /\ tr[d].idx = 2
            /\ tr[c].val # tr[d].val

(***************************************************************************)
(* The states of a request                                                 *)
(***************************************************************************)
\* the state of the executor an entry of the history belongs to: the three
\* tiers, error recovery, handling, not found
StateOf(ev) ==
    CASE ev.e = "handler" -> 5
      [] ev.e \in {"writeHead", "end"} -> 6
      [] ev.kind = "emw" -> 4
      [] OTHER -> Rank(ev.k)

\* the calls of the history
Invocations(tr) == { k \in 1..Len(tr) : tr[k].e \in {"call", "handler"} }

\* C21: a request only moves forward through the tiers to handling, error
\* recovery or not found; every middleware, error middleware and handler is
\* called at most once for it; and after the listener returned nothing more
\* happens for it.
C21_ForwardOnly ==
    /\ [](\A r \in RIds :
            LET tr == req[r].trace IN
            /\ \A a \in 1..Len(tr), b \in 1..Len(tr) :
                   a < b =>
                       /\ StateOf(tr[a]) <= StateOf(tr[b])
                       /\ StateOf(tr[a]) >= 4 => StateOf(tr[b]) = StateOf(tr[a])
            /\ \A a \in Invocations(tr), b \in Invocations(tr) :
                   (/\ tr[a].kind = tr[b].kind
                    /\ LevelOf(tr[a]) = LevelOf(tr[b])
                    /\ tr[a].idx = tr[b].idx) => a = b
            /\ req[r].pc = "done" => req[r].awaiting = {})
    /\ [][\A r \in RIds : req[r].pc = "done" => req'[r] = req[r]]_vars

\* a request went through the three tiers and its handler and is over
C21_Witness ==
    \E r \in RIds :
        LET tr == req[r].trace IN
        /\ req[r].pc = "done"
        /\ \A n \in {1, 2, 3, 5} : \E a \in 1..Len(tr) : StateOf(tr[a]) = n

(***************************************************************************)
(* Two requests in flight                                                  *)
(***************************************************************************)
\* number of elements the setup calls may put into the registry before two
\* requests are dispatched
MaxTwo == 4

NextTwo ==
    \/ SetupSize < MaxTwo /\ Setup({PathA, PathB}, {"GET"}, {"m1"}, {"e1"})
    \/ Listen
    \/ \E r \in RIds : Dispatch(r, Urls, ContVals)

SpecTwo == Init /\ [][NextTwo]_vars

NextStall ==
    \/ SetupSize < MaxTwo /\ Setup({PathA}, {"GET"}, {"m1"}, {"e1"})
    \/ Listen
    \/ \E r \in RIds : Dispatch(r, { <<"/", "a">> }, ContVals)

\* the stages called for the second request fire their continuations; those of
\* the first request may never do
SpecStall ==
    /\ Init
    /\ [][NextStall]_vars
    /\ WF_vars(\E s \in req["r2"].awaiting, v \in ContVals : Continue("r2", s, v))

\* C22: while the stage a request waits for has not fired its continuation,
\* nothing changes for that request (no stage is called, nothing is written);
\* a second request can still arrive, and it completes although the first one
\* may wait forever.
C22_StallIsLocal ==
    /\ [][\A r \in RIds :
            (req[r].pc = "await" /\ req[r].cur \in req'[r].awaiting)
                => req'[r] = req[r]]_vars
    /\ [](req["r1"].pc = "await" /\ req["r2"].pc = "idle"
            => ENABLED (\E m \in Methods : Arrive("r2", m, <<"/", "a">>)))
    /\ (req["r2"].pc = "await") ~> (req["r2"].pc = "done")

\* the second request arrived after the first one began to wait and was
\* handled, and the first one still waits at its first stage
C22_Witness ==
    /\ req["r1"].pc = "await"
    /\ Len(req["r1"].trace) = 1
    /\ req["r2"].pc = "done"
    /\ HandlerCalls(req["r2"].trace) # {}
    /\ MwCalls(req["r2"].trace) # {}

\* the listener run for one request alone, its stages firing the values of
\* the continuation entries k.. of the history tr
RECURSIVE Replay(_, _, _)
Replay(q, tr, k) ==
    IF k > Len(tr) \/ q.pc # "await" THEN q
    ELSE IF tr[k].e = "next" THEN Replay(Fired(q, q.cur, tr[k].val), tr, k + 1)
    ELSE Replay(q, tr, k + 1)

\* the route the scan stops at when no request was dispatched before: every
\* pattern is tested from the start of the url
FreshMatch(method, url) ==
    LET hits == { i \in 1..Len(ScanOrder) :
                    LET rt == routeHeap[ScanOrder[i].route] IN
                    /\ IF rt.global THEN TestGlobal(rt.path, 0, url).ok
                       ELSE Test(rt.path, url)
                    /\ rt.method = method }
    IN IF hits = {} THEN 0 ELSE CHOOSE i \in hits : \A j \in hits : i <= j

\* the request dispatched alone, with the same method, url and stage results
Alone(q) ==
    Replay(ListenerAt(IdleReq, q.method, q.url, FreshMatch(q.method, q.url)), q.trace, 1)

\* a pattern with the g flag: /^\/a\/?/g
PathBGlobal == GlobalPath(PathB.re)

NextGlobal ==
    \/ /\ ~listening
       /\ Cardinality(DOMAIN routeHeap) < MaxRoutes
       /\ \E p \in {PathB, PathBGlobal} : AppRoute(p, "GET", "h1")
    \/ Listen
    \/ \E r \in RIds, m \in Methods, u \in Urls : Arrive(r, m, u)

SpecGlobal == Init /\ [][NextGlobal]_vars

\* C23: however the steps of two requests interleave, each request is in the
\* state it would be in had it been dispatched alone with the same stage
\* results (same calls in the same order, same outcome), and its bound
\* pattern is the pattern of the route it matched.
C23_RequestsAreIndependent ==
    \A r \in RIds :
        req[r].pc # "idle" =>
            /\ req[r] = Alone(req[r])
            /\ req[r].route # NoRoute => req[r].pathRegex = routeHeap[req[r].route].path

\* C24: a matched request carries the pattern of its route from before the
\* first stage is called, the listener never changes it, and the route whose
\* middlewares and handler are used is the route of that pattern.
C24_PatternBoundBeforeStages ==
    /\ [](\A r \in RIds :
            LET q == req[r] IN
            q.route # NoRoute =>
                /\ q.pathRegex = routeHeap[q.route].path
                /\ \A k \in 1..Len(q.trace) :
                       q.trace[k].k = "route" => q.trace[k].id = q.route)
    /\ [][\A r \in RIds :
            req[r].pc # "idle" => req'[r].pathRegex = req[r].pathRegex]_vars

\* a request matched the second route of the scan, went through a middleware
\* of that route and reached its handler
C24_Witness ==
    \E r \in RIds :
        LET q == req[r] IN
        /\ q.pc = "done"
        /\ HandlerCalls(q.trace) # {}
        /\ \E a \in MwCalls(q.trace) : q.trace[a].k = "route"
        /\ Len(ScanOrder) >= 2
        /\ ScanOrder[1].route # q.route
        /\ routeHeap[ScanOrder[1].route].path # q.pathRegex

\* C25: the stages called for a matched request are entries of the lists of
\* the application, of the router that holds the matched route, and of the
\* matched route; and the handler is called only after every middleware of
\* these three tiers, whether or not one of the tiers is empty.
C25_OnlyOwnTiers ==
    \A r \in RIds :
        LET q == req[r] IN
        /\ \A c \in MwCalls(q.trace) \cup ErrCalls(q.trace) :
               LET lv == LevelOf(q.trace[c])
                   list == IF q.trace[c].kind = "mw" THEN MiddlewaresOf(lv)
                           ELSE ErrMiddlewaresOf(lv)
               IN /\ lv \in {AppLevel, RouterLevel(q.router), RouteLevel(q.route)}
                  /\ q.trace[c].idx \in 1..Len(list)
                  /\ q.trace[c].fn = list[q.trace[c].idx]
        /\ q.route # NoRoute =>
               \E i \in 1..Len(routerHeap[q.router].routes) :
                   routerHeap[q.router].routes[i].val = q.route
        /\ HandlerCalls(q.trace) # {} =>
               \A lv \in {AppLevel, RouterLevel(q.router), RouteLevel(q.route)} :
                   \A i \in 1..Len(MiddlewaresOf(lv)) :
                       \E c \in MwCalls(q.trace) :
                           LevelOf(q.trace[c]) = lv /\ q.trace[c].idx = i

\* a request was handled after the middleware of its route although its router
\* has no middleware, while the other router has one
C25_Witness ==
    \E r \in RIds :
        LET q == req[r] IN
        /\ HandlerCalls(q.trace) # {}
        /\ routerHeap[q.router].middlewares = <<>>
        /\ \E c \in MwCalls(q.trace) : q.trace[c].k = "route"
        /\ \E g \in RouterIds : g # q.router /\ routerHeap[g].middlewares # <<>>

(***************************************************************************)
(* The request stream and applyJsonBodyParser                              *)
(***************************************************************************)
\* applyJsonBodyParser of part_000 and of 11/simpressjs, and the one of 07
BodyParsers == {"applyJsonBodyParser", "applyJsonBodyParser07"}

\* 'data' and 'end' of the request stream
StreamEv(kind, chunk) ==
    [e |-> "stream", kind |-> kind, k |-> "", id |-> NoRoute, idx |-> 0, fn |-> "", val |-> chunk]
IsData(ev) == ev.e = "stream" /\ ev.kind = "data"
\* a 'data' listener was added: the stream flows
Flowing(q) == \E k \in 1..Len(q.trace) : q.trace[k].e = "call" /\ q.trace[k].fn \in BodyParsers
StreamEnded(q) == \E k \in 1..Len(q.trace) : q.trace[k] = StreamEv("end", "")
Delivered(q) == Len(SelectSeq(q.trace, IsData))

\* the array body of the parser called at history entry s: the chunks of the
\* 'data' events since the call
Heard(q, s) ==
    LET evs == SelectSeq(SubSeq(q.trace, s + 1, Len(q.trace)), IsData)
    IN [i \in 1..Len(evs) |-> evs[i].val]

\* the 'end' listener of the parser called at history entry s, up to its last
\* statement: the request after it, and whether the continuation is fired
EndHandler(q, s) ==
    LET chunks == Heard(q, s) IN
    IF /\ q.trace[s].fn = "applyJsonBodyParser07"
       /\ chunks # <<>>
       /\ ~JsonParse(Concat(chunks)).ok
    THEN [q |-> [q EXCEPT !.status = 400, !.ended = TRUE], fire |-> FALSE]
    ELSE [q |-> ParseBody(q, chunks), fire |-> TRUE]

OnEnd(q, s) ==
    IF EndHandler(q, s).fire THEN Fired(EndHandler(q, s).q, s, Undefined)
    ELSE EndHandler(q, s).q

PendingParsers(q) == { s \in q.awaiting : q.trace[s].fn \in BodyParsers }

RECURSIVE EmitEnd(_, _)
\* the 'end' listeners run in the order they were added
EmitEnd(q, S) ==
    IF S = {} THEN q
    ELSE LET s == CHOOSE x \in S : \A y \in S : x <= y
         IN EmitEnd(OnEnd(q, s), S \ {s})

\* the stream emits 'data' with the next chunk
StreamData(r) ==
    /\ req[r].pc # "idle"
    /\ Flowing(req[r])
    /\ Delivered(req[r]) < Len(ChunksOf(req[r].payload))
    /\ req' = [req EXCEPT ![r].trace =
                 Append(@, StreamEv("data", ChunksOf(req[r].payload)[Delivered(req[r]) + 1]))]
    /\ UNCHANGED <<app, routerHeap, routeHeap, listening, raised>>

\* the stream emits 'end'
StreamEnd(r) ==
    /\ req[r].pc # "idle"
    /\ Flowing(req[r])
    /\ Delivered(req[r]) = Len(ChunksOf(req[r].payload))
    /\ ~StreamEnded(req[r])
    /\ req' = [req EXCEPT ![r] =
                 EmitEnd([req[r] EXCEPT !.trace = Append(@, StreamEv("end", ""))],
                         PendingParsers(req[r]))]
    /\ UNCHANGED <<app, routerHeap, routeHeap, listening, raised>>

MaxBody == 3

NextBody ==
    \/ /\ ~listening
       /\ SetupSize < MaxBody
       /\ \/ \E m \in {"m1"} \cup BodyParsers : AppUse(m)
          \/ AppRoute(EchoPath, "POST", "echo")
          \/ \E id \in DOMAIN routeHeap : RouteUse(id, "applyJsonBodyParser")
    \/ Listen
    \/ \E m \in Methods, u \in EchoUrls, b \in Payloads : ArriveWith("r1", m, u, b)
    \/ StreamData("r1")
    \/ StreamEnd("r1")
    \/ \E s \in req["r1"].awaiting \ PendingParsers(req["r1"]), v \in ContVals :
          Continue("r1", s, v)

SpecBody == Init /\ [][NextBody]_vars

\* the continuation of the body parser called at history entry s fires in this step
ParserFires(r, s) ==
    /\ s \in PendingParsers(req[r])
    /\ s \notin req'[r].awaiting

\* the request at the moment the parser called at entry s fires its continuation
AtFire(r, s) == EndHandler([req[r] EXCEPT !.trace = Append(@, StreamEv("end", ""))], s).q

WellFormed(payload) == payload # "" /\ JsonParse(payload).ok

\* C26 as stated: when the body parser fires its continuation, the body
\* of the request has been assigned or a response has been written.
C26_BodyOrResponseWhenFired ==
    [][\A r \in RIds : \A s \in PendingParsers(req[r]) :
         ParserFires(r, s) =>
             \/ AtFire(r, s).body # NoValue
             \/ AtFire(r, s).status # 0
             \/ AtFire(r, s).ended]_vars

\* C26: the body parser fires its continuation in the step of the stream's
\* 'end', after every chunk of the payload, at most once and with no error
\* value; at that moment the body of the request is the parsed payload if
\* the payload is non-empty well-formed JSON, and otherwise the body is not
\* assigned and nothing was written to the response; the parser of 07 given
\* a malformed payload writes 400 and never fires its continuation.
C26_ParserFiresAtEnd ==
    /\ [][\A r \in RIds : \A s \in PendingParsers(req[r]) :
            ParserFires(r, s) =>
                LET q == req[r]
                    n == Len(q.trace)
                IN /\ Delivered(q) = Len(ChunksOf(q.payload))
                   /\ req'[r].trace[n + 1] = StreamEv("end", "")
                   /\ req'[r].trace[n + 2] = NextEv(q.trace[s], Undefined)
                   /\ req'[r].body = AtFire(r, s).body
                   /\ AtFire(r, s).status = q.status
                   /\ AtFire(r, s).ended = q.ended
                   /\ IF WellFormed(q.payload)
                      THEN AtFire(r, s).body = JsonParse(q.payload).val
                      ELSE AtFire(r, s).body = q.body]_vars
    /\ [](\A r \in RIds :
            LET q == req[r] IN
            \A c \in 1..Len(q.trace) :
                (q.trace[c].e = "call" /\ q.trace[c].fn \in BodyParsers) =>
                    /\ Cardinality({ k \in 1..Len(q.trace) :
                                       q.trace[k].e = "next" /\ q.trace[k].fn = q.trace[c].fn
                                       /\ LevelOf(q.trace[k]) = LevelOf(q.trace[c])
                                       /\ q.trace[k].idx = q.trace[c].idx }) <= 1
                    /\ (/\ q.trace[c].fn = "applyJsonBodyParser07"
                        /\ q.payload # ""
                        /\ ~JsonParse(q.payload).ok) =>
                           /\ c \in q.awaiting \/ Len(q.trace) < c
                           /\ StreamEnded(q) /\ Heard(q, c) # <<>> =>
                                  q.status = 400 /\ q.ended)

\* the parser received a payload in two chunks, fired its continuation at the
\* end of the stream, and the handler echoed the parsed object
C26_Witness ==
    \E r \in RIds :
        LET q == req[r] IN
        /\ q.payload = "{ \"a\": 1 }"
        /\ Delivered(q) = 2
        /\ \E k \in 1..Len(q.trace) : q.trace[k].e = "next" /\ q.trace[k].fn \in BodyParsers
        /\ q.body.t = "object"
        /\ q.status = 200
        /\ q.pc = "done"

(***************************************************************************)
(* The router list of the application                                      *)
(***************************************************************************)
NextRouters ==
    \/ /\ SetupSize < MaxRoutes
       /\ \/ \E r \in UserRouters \cup MoreRouters : UseRouter(r)
          \/ \E p \in {PathA, PathB} : AppRoute(p, "GET", "h1")
          \/ \E r \in UserRouters \cup MoreRouters, p \in {PathA, PathB} :
                RouterRoute(r, p, "GET", "h2")
    \/ Listen
    \/ \E m \in Methods, u \in Urls : Arrive("r1", m, u)

SpecRouters == Init /\ [][NextRouters]_vars

\* C27: the router list of the application always starts with the router made
\* by the constructor and holds no router twice; a step changes the list only
\* by appending one router that was not in it; and Simpress.route stores its
\* Route in the first router and in no other.
C27_DefaultRouterFirst ==
    /\ [](/\ Len(app.routers) >= 1
          /\ app.routers[1] = 0
          /\ \A i, j \in 1..Len(app.routers) : app.routers[i] = app.routers[j] => i = j)
    /\ [][\/ app.routers' = app.routers
          \/ \E r \in RouterIds :
                ~Includes(app.routers, r) /\ app.routers' = Append(app.routers, r)]_vars
    /\ [][\A p \in {PathA, PathB} :
            AppRoute(p, "GET", "h1") =>
                /\ \E i \in 1..Len(routerHeap'[0].routes) :
                      /\ routerHeap'[0].routes[i].key = RouteKey("GET", ToRegExp(p))
                      /\ routeHeap'[routerHeap'[0].routes[i].val].listener = "h1"
                      /\ routerHeap'[0].routes[i].val \notin DOMAIN routeHeap
                /\ \A g \in RouterIds \ {0} : routerHeap'[g] = routerHeap[g]]_vars

\* two routers were added after the default one, and a route of the
\* application is in the default router and not in the router added first
C27_Witness ==
    /\ Len(app.routers) = 3
    /\ app.routers[1] = 0
    /\ routerHeap[0].routes # <<>>
    /\ routerHeap[app.routers[2]].routes = <<>>

\* C28: a step of a request leaves the registry as it was: the router list
\* and the middleware lists of the application, the route Map and the
\* middleware lists of every router, and every Route with its pattern and its
\* middleware lists.
C28_DispatchKeepsRegistry ==
    [][req' # req =>
         /\ app' = app
         /\ routerHeap' = routerHeap
         /\ routeHeap' = routeHeap]_vars

(***************************************************************************)
(* Path strings that do not compile                                        *)
(***************************************************************************)
\* '/a(' and '/a)': an unterminated group and an unmatched ")"
PathOpen == StrPath(<<"/", "a", "(">>)
PathClose == StrPath(<<"/", "a", ")">>)
BadPaths == {PathOpen, PathClose}

NextBad ==
    \/ /\ Cardinality(DOMAIN routeHeap) < MaxRoutes
       /\ \/ \E p \in {PathA, PathB} \cup BadPaths : AppRoute(p, "GET", "h1")
          \/ \E r \in UserRouters, p \in {PathA} \cup BadPaths : RouterRoute(r, p, "GET", "h2")
    \/ \E r \in UserRouters : ~Includes(app.routers, r) /\ UseRouter(r)
    \/ Listen
    \/ \E m \in Methods, u \in Urls : Arrive("r1", m, u)

SpecBad == Init /\ [][NextBad]_vars

\* C29: Router.route and Simpress.route called with a string that does not
\* compile throw and leave the registry as it was; every Route in the
\* registry holds a constructed pattern, and no step of a request throws.
C29_BadPatternFailsAtRegistration ==
    /\ [][\A r \in RouterIds, p \in BadPaths, h \in {"h1", "h2"} :
            RouterRoute(r, p, "GET", h) =>
                /\ raised' = "SyntaxError"
                /\ app' = app /\ routerHeap' = routerHeap /\ routeHeap' = routeHeap]_vars
    /\ [](\A id \in DOMAIN routeHeap : routeHeap[id].path # NoRegExp)
    /\ [][req' # req => raised' = raised]_vars

\* a call with a string that does not compile threw, the registry holds routes, and a request
\* was given to one of them
C29_Witness ==
    /\ raised = "SyntaxError"
    /\ DOMAIN routeHeap # {}
    /\ \E r \in RIds : req[r].pc = "done" /\ req[r].route # NoRoute

(***************************************************************************)
(* Falsy values passed to continuations                                    *)
(***************************************************************************)
\* undefined, and the values null, false and 0
FalsyVals == {Undefined, "null", "false", "0"}

NextFalsy ==
    \/ Setup({PathA}, {"GET"}, {"m1"}, ErrMws)
    \/ Listen
    \/ Dispatch("r1", { <<"/", "a">> }, FalsyVals)

SpecFalsy == Init /\ [][NextFalsy]_vars

\* C30: a middleware that fires its continuation with a value other than
\* undefined, null, false and 0 included, is followed by the first error
\* middleware of its tier called with that value, or by the end of the request
\* when the tier has none, and never by a middleware or the handler; fired
\* with undefined it is not followed by an error middleware. An error
\* middleware that fires with a value other than undefined is followed by
\* the next error middleware of the tier called with that value, or by the end
\* of the request; fired with undefined it ends the request.
C30_OnlyUndefinedIsNoError ==
    \A r \in RIds :
        LET q == req[r]
            tr == q.trace
        IN \A k \in 1..Len(tr) :
               tr[k].e = "next" =>
                   LET errs == ErrMiddlewaresOf(LevelOf(tr[k]))
                       j == IF tr[k].kind = "mw" THEN 1 ELSE tr[k].idx + 1
                   IN IF tr[k].val # Undefined
                      THEN IF j <= Len(errs)
                           THEN /\ k < Len(tr)
                                /\ tr[k + 1] = CallEv("emw", LevelOf(tr[k]), j, errs[j], tr[k].val)
                           ELSE k = Len(tr) /\ q.pc = "done"
                      ELSE IF tr[k].kind = "emw"
                           THEN k = Len(tr) /\ q.pc = "done"
                           ELSE k < Len(tr) /\ tr[k + 1].e \in {"call", "handler"}
                                /\ tr[k + 1].kind # "emw"

\* a middleware fired with 0, the first error middleware was called with 0
\* and fired with null, the second was called with null and fired with
\* undefined, which ended the request
C30_Witness ==
    \E r \in RIds :
        LET tr == req[r].trace IN
        /\ req[r].pc = "done"
        /\ \E k \in 1..Len(tr) :
              /\ k + 4 = Len(tr)
              /\ tr[k].e = "next" /\ tr[k].kind = "mw" /\ tr[k].val = "0"
              /\ tr[k + 1].e = "call" /\ tr[k + 1].kind = "emw" /\ tr[k + 1].val = "0"
              /\ tr[k + 2].e = "next" /\ tr[k + 2].val = "null"
              /\ tr[k + 3].e = "call" /\ tr[k + 3].kind = "emw" /\ tr[k + 3].val = "null"
              /\ tr[k + 4].e = "next" /\ tr[k + 4].val = Undefined

(***************************************************************************)
(* Continuations called more than once                                     *)
(***************************************************************************)
NextAgain ==
    \/ SetupSize < MaxTwo /\ Setup({PathA}, {"GET"}, {"m1"}, {"e1"})
    \/ Listen
    \/ Dispatch("r1", { <<"/", "a">> }, ContVals)
    \/ \E s \in 1..Len(req["r1"].trace), v \in ContVals : ContinueAgain("r1", s, v)

SpecAgain == Init /\ [][NextAgain]_vars

\* the history without the repeated calls of continuations
RECURSIVE WithoutAgains(_)
WithoutAgains(tr) ==
    IF tr = <<>> THEN <<>>
    ELSE IF Head(tr).e = "again" THEN WithoutAgains(Tail(tr))
    ELSE <<Head(tr)>> \o WithoutAgains(Tail(tr))

\* C31: a continuation called again changes nothing of its request but the
\* history entry of that call; every stage and the handler is called at most
\* once whatever is called again; and the stage called after a continuation
\* was fired is the one the first value leads to: the first error middleware
\* after an error value of a middleware, never after undefined.
C31_FirstFiringOnly ==
    /\ [][\A r \in RIds :
            Cardinality(Agains(req'[r].trace)) > Cardinality(Agains(req[r].trace)) =>
                /\ Len(req'[r].trace) = Len(req[r].trace) + 1
                /\ req'[r] = [req[r] EXCEPT !.trace = req'[r].trace]
                /\ SubSeq(req'[r].trace, 1, Len(req[r].trace)) = req[r].trace]_vars
    /\ [](\A r \in RIds :
            LET tr == req[r].trace
                h == WithoutAgains(tr)
            IN /\ \A a \in Invocations(tr), b \in Invocations(tr) :
                      (/\ tr[a].kind = tr[b].kind
                       /\ LevelOf(tr[a]) = LevelOf(tr[b])
                       /\ tr[a].idx = tr[b].idx) => a = b
               /\ \A k \in 1..Len(h) :
                      (h[k].e = "next" /\ k < Len(h)) =>
                          /\ h[k + 1].e \in {"call", "handler"}
                          /\ h[k].kind = "mw" =>
                                 (h[k + 1].kind = "emw" <=> h[k].val # Undefined)
                          /\ h[k].kind = "emw" => h[k + 1].kind = "emw" /\ h[k].val # Undefined)

\* a middleware fired its continuation with undefined and then again with an
\* error value; the request went on to its handler and is over
C31_Witness ==
    \E r \in RIds :
        LET tr == req[r].trace IN
        /\ req[r].pc = "done"
        /\ HandlerCalls(tr) # {}
        /\ ErrMiddlewaresOf(AppLevel) # <<>>
        /\ \E k \in Agains(tr) :
              /\ tr[k].kind = "mw" /\ tr[k].val # Undefined /\ tr[k].k = "app"
              /\ \E j \in 1..(k - 1) :
                    /\ tr[j].e = "next" /\ tr[j].val = Undefined
                    /\ tr[j].kind = "mw" /\ LevelOf(tr[j]) = LevelOf(tr[k])
                    /\ tr[j].idx = tr[k].idx
              /\ \E j \in HandlerCalls(tr) : j > k

\* C32: when the listener writes 404 for a request, the 404 is the first
\* entry of that request's history and no middleware, error middleware or
\* handler of any tier is ever called for it.
C32_NothingRunsBefore404 ==
    \A r \in RIds :
        LET tr == req[r].trace IN
        (\E k \in 1..Len(tr) : tr[k].e = "writeHead") =>
            /\ tr[1] = WriteHeadEv(404)
            /\ req[r].route = NoRoute
            /\ MwCalls(tr) \cup ErrCalls(tr) \cup HandlerCalls(tr) = {}

\* a 404 was written although the application, an attached router and a route
\* of that router have middlewares
C32_Witness ==
    \E r \in RIds :
        /\ req[r].status = 404
        /\ app.middlewares # <<>>
        /\ \E g \in UserRouters :
              /\ Includes(app.routers, g)
              /\ routerHeap[g].middlewares # <<>>
              /\ \E i \in 1..Len(routerHeap[g].routes) :
                    routeHeap[routerHeap[g].routes[i].val].middlewares # <<>>

(***************************************************************************)
(* Registering a key again                                                 *)
(***************************************************************************)
\* the Route objects that were replaced in the Map of their router
Replaced == { id \in DOMAIN routeHeap : Owners(id) = {} }

\* C33: route() creates a Route with empty lists and, when the key is in the
\* Map, puts it in the place of the Route held there; a request matched
\* afterwards is given the Route held by the Map, and the stages called for it at
\* the route tier are entries of that Route's lists, whatever the lists of the
\* replaced Route hold.
C33_ReplacedRouteIsGone ==
    /\ [][\A id \in DOMAIN routeHeap' \ DOMAIN routeHeap :
            /\ routeHeap'[id].middlewares = <<>>
            /\ routeHeap'[id].errMiddlewares = <<>>
            /\ MapGet(routerHeap'[id[1]].routes, id[2]) = id
            /\ \A old \in DOMAIN routeHeap :
                   (old[1] = id[1] /\ old[2] = id[2]) =>
                       \A g \in RouterIds :
                           \A i \in 1..Len(routerHeap'[g].routes) :
                               routerHeap'[g].routes[i].val # old]_vars
    /\ [](\A r \in RIds :
            LET q == req[r]
                tr == q.trace
            IN /\ q.route # NoRoute => q.route \notin Replaced
               /\ \A c \in 1..Len(tr) :
                      tr[c].k = "route" =>
                          /\ tr[c].id = q.route
                          /\ tr[c].e = "call" =>
                                 tr[c].fn = (IF tr[c].kind = "mw"
                                             THEN routeHeap[q.route].middlewares
                                             ELSE routeHeap[q.route].errMiddlewares)[tr[c].idx])

\* a route was registered, given a middleware and registered again; a request
\* reached the handler of the second Route without a call at the route tier
C33_Witness ==
    \E r \in RIds :
        LET q == req[r] IN
        /\ HandlerCalls(q.trace) # {}
        /\ routeHeap[q.route].middlewares = <<>>
        /\ \A c \in MwCalls(q.trace) : q.trace[c].k # "route"
        /\ \E old \in Replaced :
              /\ old[1] = q.route[1] /\ old[2] = q.route[2]
              /\ routeHeap[old].middlewares # <<>>

\* number of elements the calls may put into the registry when keys are
\* registered again while requests are in flight
MaxReplace == 4

NextReplace ==
    \/ /\ SetupSize < MaxReplace
       /\ \/ /\ Cardinality(DOMAIN routeHeap) < MaxRoutes
             /\ \E p \in {PathA, PathB}, h \in {"h1", "h2"} : AppRoute(p, "GET", h)
          \/ \E id \in DOMAIN routeHeap : RouteUse(id, "m1")
          \/ \E id \in DOMAIN routeHeap : RouteUseForError(id, "e1")
    \/ Listen
    \/ \E r \in RIds : Dispatch(r, { <<"/", "a">> }, ContVals)

SpecReplace == Init /\ [][NextReplace]_vars

\* the keys of a Map in iteration order
KeysOf(entries) == [i \in 1..Len(entries) |-> entries[i].key]

\* C34: route() leaves the keys of the Map in their order, putting a key that
\* is not in the Map last; and a request is given the first Route in the
\* order of the Maps that fits it, so a Route that replaced another is tried
\* where the key was first put.
C34_ReplacementKeepsPosition ==
    /\ [][\A g \in RouterIds :
            \/ KeysOf(routerHeap'[g].routes) = KeysOf(routerHeap[g].routes)
            \/ \E id \in DOMAIN routeHeap' \ DOMAIN routeHeap :
                  /\ \A i \in 1..Len(routerHeap[g].routes) :
                         routerHeap[g].routes[i].key # id[2]
                  /\ KeysOf(routerHeap'[g].routes) =
                         Append(KeysOf(routerHeap[g].routes), id[2])]_vars
    /\ [][\A r \in RIds :
            (req[r].pc = "idle" /\ req'[r].route # NoRoute) =>
                \E p \in ScanPositions :
                    /\ RouteAt(p) = req'[r].route
                    /\ \A o \in ScanPositions :
                          Before(o, p) => ~Fits(RouteAt(o), req'[r].method, req'[r].url)]_vars

\* '/a' was registered, then /^\/a\/?/, then '/a' again; a request for /a was
\* given to the Route registered last, ahead of the Route registered second
C34_Witness ==
    \E r \in RIds :
        LET q == req[r] IN
        /\ q.route # NoRoute
        /\ q.route[3] = 2
        /\ Len(routerHeap[0].routes) = 2
        /\ routerHeap[0].routes[1].val = q.route
        /\ routerHeap[0].routes[2].val[3] = 1
        /\ Fits(routerHeap[0].routes[2].val, q.method, q.url)

\* C35: a request keeps the Route it was matched with: when that Route has
\* been replaced in the Map, the stages called for the request at the route
\* tier are still entries of the lists of the Route it holds and its handler
\* is that Route's handler; a request is never matched with a replaced Route.
C35_InFlightKeepsOldRoute ==
    /\ [][\A r \in RIds :
            /\ req[r].pc # "idle" => req'[r].route = req[r].route
            /\ (req[r].pc = "idle" /\ req'[r].route # NoRoute) => req'[r].route \notin Replaced
            /\ req[r].route \in Replaced =>
                   \A k \in (Len(req[r].trace) + 1)..Len(req'[r].trace) :
                       LET ev == req'[r].trace[k]
                           old == routeHeap[req[r].route]
                       IN /\ ev.k = "route" => ev.id = req[r].route
                          /\ ev.e = "handler" => ev.fn = old.listener
                          /\ (ev.e = "call" /\ ev.k = "route") =>
                                 ev.fn = (IF ev.kind = "mw" THEN old.middlewares
                                          ELSE old.errMiddlewares)[ev.idx]]_vars

\* a request waits at a middleware of the Route it was matched with, which has
\* been replaced since, and the other request was handled by the Route that
\* replaced it
C35_Witness ==
    \E r \in RIds, n \in RIds :
        LET q == req[r] IN
        /\ q.route \in Replaced
        /\ q.pc = "await"
        /\ q.trace[q.cur].k = "route"
        /\ req[n].route \notin Replaced
        /\ req[n].route[2] = q.route[2]
        /\ \E h \in HandlerCalls(req[n].trace) :
              req[n].trace[h].fn # routeHeap[q.route].listener

(***************************************************************************)
(* Stages that throw                                                       *)
(***************************************************************************)
NextThrow ==
    \/ Setup({PathA}, {"GET"}, Mws, ErrMws)
    \/ Listen
    \/ Dispatch("r1", { <<"/", "a">> }, ContVals)
    \/ \E s \in req["r1"].awaiting : Throws("r1", s)

SpecThrow == Init /\ [][NextThrow]_vars

\* C36: when a middleware throws, its throw is the last entry of the history
\* of the request: no error middleware, no middleware and no handler is called
\* after it, the listener is over, and nothing was written to the response.
C36_ThrowEndsListenerSilently ==
    \A r \in RIds :
        LET q == req[r]
            tr == q.trace
        IN \A k \in 1..Len(tr) :
               (tr[k].e = "throw" /\ tr[k].kind = "mw") =>
                   /\ k = Len(tr)
                   /\ q.pc = "done"
                   /\ ErrCalls(tr) = {}
                   /\ HandlerCalls(tr) = {}
                   /\ q.status = 0
                   /\ ~q.ended
                   /\ q.sent = ""

\* the first middleware of the application threw while the application has
\* a second middleware and an error middleware
C36_Witness ==
    \E r \in RIds :
        LET tr == req[r].trace IN
        /\ Len(tr) = 2
        /\ tr[2].e = "throw" /\ tr[2].kind = "mw" /\ tr[2].k = "app" /\ tr[2].idx = 1
        /\ Len(app.middlewares) = 2
        /\ app.errMiddlewares # <<>>

(***************************************************************************)
(* main: the example application                                           *)
(***************************************************************************)
RootPath == StrPath(<<"/">>)
UsersPath == StrPath(<<"/", "u", "s", "e", "r", "s">>)
\* /^\/params\/(?<name>\w+)\/?/
ParamsPath ==
    RePath([alts |-> << <<Bol>> \o <<Chr("/"), Chr("p"), Chr("a"), Chr("r"), Chr("a"), Chr("m"), Chr("s"), Chr("/")>> \o <<Plus("w", "name"), Opt("/")>> >>])

ErrInvalidNamePathParameter == "ErrInvalidNamePathParameter"
ErrNoQueryParams == "ErrNoQueryParams"
ErrInvalidUserData == "ErrInvalidUserData"
ErrInvalidUserName == "ErrInvalidUserName"
ErrInvalidUserNick == "ErrInvalidUserNick"
ErrInvalidUserId == "ErrInvalidUserId"

\* JSON.stringify({ message: err.message })
MessageOf(err) ==
    CASE err = ErrInvalidNamePathParameter -> "{\"message\":\"invalid name path parameter\"}"
      [] err = ErrNoQueryParams -> "{\"message\":\"no query params\"}"
      [] err = ErrInvalidUserData -> "{\"message\":\"invalid user data\"}"
      [] err = ErrInvalidUserName -> "{\"message\":\"invalid user name\"}"
      [] err = ErrInvalidUserNick -> "{\"message\":\"invalid user nickname\"}"
      [] err = ErrInvalidUserId -> "{\"message\":\"invalid user id\"}"

Letters == {"a", "b", "c", "d", "e", "f", "g", "h", "i", "j", "k", "l", "m", "n", "o", "p", "q", "r", "s", "t", "u", "v", "w", "x", "y", "z", "A", "B", "C", "D", "E", "F", "G", "H", "I", "J", "K", "L", "M", "N", "O", "P", "Q", "R", "S", "T", "U", "V", "W", "X", "Y", "Z"}
UndefinedText == <<"u", "n", "d", "e", "f", "i", "n", "e", "d">>
\* /^[a-zA-Z-]+$/.test and /^[a-zA-Z0-9]+$/.test on the characters of the model
LettersOnly(text) == text # <<>> /\ \A i \in 1..Len(text) : text[i] \in Letters \cup {"-"}
Alphanumeric(text) == text # <<>> /\ \A i \in 1..Len(text) : text[i] \in Letters \cup Digits

\* String(user.name), String(user.nick) for the bodies of the model
FieldOf(val, f) ==
    CASE val.json = "{\"name\":\"ann\",\"nick\":\"a-n\"}" ->
             (IF f = "name" THEN <<"a", "n", "n">> ELSE <<"a", "-", "n">>)
      [] val.json = "{\"name\":\"a1\",\"nick\":\"nn\"}" ->
             (IF f = "name" THEN <<"a", "1">> ELSE <<"n", "n">>)
      [] OTHER -> UndefinedText

\* req.pathParams && req.pathParams[name]: its typeof and String() of it
ParamOf(q, name) ==
    IF q.pathParams.state = "unset" THEN [t |-> "undefined", text |-> UndefinedText]
    ELSE IF q.pathParams.state = "null" THEN [t |-> "object", text |-> <<"n", "u", "l", "l">>]
    ELSE LET hits == { i \in 1..Len(q.pathParams.groups) : q.pathParams.groups[i].name = name }
         IN IF hits = {} THEN [t |-> "undefined", text |-> UndefinedText]
            ELSE [t |-> "string", text |-> q.pathParams.groups[CHOOSE i \in hits : TRUE].value]

\* url.parse(req.url, true).query: the text after the first "?"
QueryText(url) ==
    LET marks == { i \in 1..Len(url) : url[i] = "?" }
    IN IF marks = {} THEN <<>>
       ELSE SubSeq(url, (CHOOSE i \in marks : \A j \in marks : i <= j) + 1, Len(url))
\* Object.keys(req.queryParams).length
HasKeys(text) == \E i \in 1..Len(text) : text[i] # "&"

\* the middleware of validateUserFactory(update): the value it passes on
ValidateUser(q, update) ==
    IF ~q.body.truthy \/ TypeOf(q.body) # "object" THEN ErrInvalidUserData
    ELSE IF ~LettersOnly(FieldOf(q.body, "name")) THEN ErrInvalidUserName
    ELSE IF ~LettersOnly(FieldOf(q.body, "nick")) THEN ErrInvalidUserNick
    ELSE IF update /\ ParamOf(q, "id").t # "number" THEN ErrInvalidUserId
    ELSE Undefined

\* an error middleware of main that answers 400 for the errors in handled
Answer400(q, err, handled, fires) ==
    IF err \notin handled THEN [q |-> q, v |-> err, fire |-> TRUE]
    ELSE [q |-> [q EXCEPT !.status = 400, !.sent = MessageOf(err), !.ended = TRUE],
          v |-> Undefined, fire |-> fires]

MainStages ==
    LibStages \cup {"applyQueryParamsParser", "applyConsoleLogger", "nameCheck", "queryCheck",
                    "nameErr", "queryErr", "validateUser", "validateUserUpdate",
                    "handleUserValidationError"}

\* what the stage of main called at history entry s does, and whether it
\* fires its continuation
MainOutcome(q, s) ==
    LET fn == q.trace[s].fn
        err == q.trace[s].val
        pass(v) == [q |-> q, v |-> v, fire |-> TRUE]
    IN CASE fn \in LibStages ->
                [q |-> StageOutcome(q, s).q, v |-> StageOutcome(q, s).v, fire |-> TRUE]
         [] fn = "applyQueryParamsParser" ->
                [q |-> [q EXCEPT !.queryParams = [state |-> "set", text |-> QueryText(q.url)]],
                 v |-> Undefined, fire |-> TRUE]
         [] fn = "applyConsoleLogger" -> pass(Undefined)
         [] fn = "nameCheck" ->
                pass(IF q.pathParams.state # "groups" \/ ~Alphanumeric(ParamOf(q, "name").text)
                     THEN ErrInvalidNamePathParameter ELSE Undefined)
         [] fn = "queryCheck" ->
                pass(IF q.queryParams.state # "set" \/ ~HasKeys(q.queryParams.text)
                     THEN ErrNoQueryParams ELSE Undefined)
         [] fn = "nameErr" -> Answer400(q, err, {ErrInvalidNamePathParameter}, TRUE)
         [] fn = "queryErr" -> Answer400(q, err, {ErrNoQueryParams}, FALSE)
         [] fn = "validateUser" -> pass(ValidateUser(q, FALSE))
         [] fn = "validateUserUpdate" -> pass(ValidateUser(q, TRUE))
         [] fn = "handleUserValidationError" ->
                Answer400(q, err, {ErrInvalidUserData, ErrInvalidUserName, ErrInvalidUserNick,
                                   ErrInvalidUserId}, TRUE)

\* the stage of main called at history entry s runs
RunMainStage(r, s) ==
    /\ s \in req[r].awaiting
    /\ req[r].trace[s].fn \in MainStages
    /\ req' = [req EXCEPT ![r] =
                 IF MainOutcome(req[r], s).fire
                 THEN Fired(MainOutcome(req[r], s).q, s, MainOutcome(req[r], s).v)
                 ELSE MainOutcome(req[r], s).q]
    /\ UNCHANGED <<app, routerHeap, routeHeap, listening, raised>>

\* the statements of main up to app.useRouter(usersRouter), one registration each
MainLen == 23
MainStep ==
    \/ SetupSize = 0 /\ AppUse("applyJsonBodyParser")
    \/ SetupSize = 1 /\ AppUse("applyPathParamsParser")
    \/ SetupSize = 2 /\ AppUse("applyQueryParamsParser")
    \/ SetupSize = 3 /\ AppUse("applyConsoleLogger")
    \/ SetupSize = 4 /\ AppRoute(RootPath, "GET", "root")
    \/ SetupSize = 5 /\ AppRoute(EchoPath, "POST", "echo")
    \/ SetupSize = 6 /\ AppRoute(ParamsPath, "GET", "params")
    \/ SetupSize = 7 /\ RouteUse(RouterFindRoute(0, ParamsPath, "GET"), "nameCheck")
    \/ SetupSize = 8 /\ RouteUse(RouterFindRoute(0, ParamsPath, "GET"), "queryCheck")
    \/ SetupSize = 9 /\ RouteUseForError(RouterFindRoute(0, ParamsPath, "GET"), "nameErr")
    \/ SetupSize = 10 /\ RouteUseForError(RouterFindRoute(0, ParamsPath, "GET"), "queryErr")
    \/ SetupSize = 11 /\ RouteUse(AppFindRoute(EchoPath, "POST"), "applyJsonBodyValidator")
    \/ SetupSize = 12 /\ RouteUseForError(AppFindRoute(EchoPath, "POST"),
                                          "applyMiddlewareErrorsHandler")
    \/ SetupSize = 13 /\ RouterRoute(1, UsersPath, "GET", "usersList")
    \/ SetupSize = 14 /\ RouterRoute(1, UsersPath, "POST", "usersCreate")
    \/ SetupSize = 15 /\ RouteUse(RouterFindRoute(1, UsersPath, "POST"), "validateUser")
    \/ SetupSize = 16 /\ RouteUseForError(RouterFindRoute(1, UsersPath, "POST"),
                                          "handleUserValidationError")
    \/ SetupSize = 17 /\ RouterRoute(1, UsersIdMainPath, "GET", "usersGet")
    \/ SetupSize = 18 /\ RouterRoute(1, UsersIdMainPath, "PUT", "usersPut")
    \/ SetupSize = 19 /\ RouteUse(RouterFindRoute(1, UsersIdMainPath, "PUT"),
                                  "validateUserUpdate")
    \/ SetupSize = 20 /\ RouteUseForError(RouterFindRoute(1, UsersIdMainPath, "PUT"),
                                          "handleUserValidationError")
    \/ SetupSize = 21 /\ RouterRoute(1, UsersIdMainPath, "DELETE", "usersDelete")
    \/ SetupSize = 22 /\ UseRouter(1)

\* requests to the example application
UsersPageUrl == <<"/", "u", "s", "e", "r", "s", "?", "p", "a", "g", "e", "=", "1">>
MainUrls ==
    { <<"/">>, <<"/", "u", "s", "e", "r", "s">>, UsersPageUrl, Url42, <<"/", "e", "c", "h", "o">>,
      <<"/", "p", "a", "r", "a", "m", "s", "/", "a", "_">>, <<"/", "p", "a", "r", "a", "m", "s", "/", "a", "b", "?", "c", "=", "1">> }
MainMethods == {"GET", "POST", "PUT"}
UserText == "{ \"name\": \"ann\", \"nick\": \"a-n\" }"
MainPayloads == {"", UserText, "{ \"name\": \"a1\", \"nick\": \"nn\" }", "5"}

NextMain ==
    \/ MainStep
    \/ SetupSize = MainLen /\ Listen
    \/ \E m \in MainMethods, u \in MainUrls, b \in MainPayloads : ArriveWith("r1", m, u, b)
    \/ \E s \in req["r1"].awaiting : RunMainStage("r1", s)

SpecMain == Init /\ [][NextMain]_vars

\* C37: in the example application a GET request for /users?page=1 is given
\* to the route of the users router whose handler lists the users.
C37_UsersPageGoesToUsersList ==
    \A r \in RIds :
        (req[r].pc # "idle" /\ req[r].method = "GET" /\ req[r].url = UsersPageUrl) =>
            /\ req[r].route # NoRoute
            /\ req[r].router = 1
            /\ routeHeap[req[r].route].listener = "usersList"

\* C38: in the example application a PUT request for /users/42 with a body
\* whose name and nick are valid is not refused with 'invalid user id' by the
\* validation middleware and, once the listener is over, has reached the
\* handler of PUT.
C38_ValidPutReachesHandler ==
    \A r \in RIds :
        LET q == req[r] IN
        (q.pc # "idle" /\ q.method = "PUT" /\ q.url = Url42 /\ q.payload = UserText) =>
            /\ \A k \in 1..Len(q.trace) :
                   q.trace[k].e = "next" => q.trace[k].val # ErrInvalidUserId
            /\ q.pc = "done" =>
                   \E h \in HandlerCalls(q.trace) : q.trace[h].fn = "usersPut"

(***************************************************************************)
(* The listener of the earlier Simpress, which has one Map of routes and   *)
(* the levels [this, route]                                                *)
(***************************************************************************)
\* this._routes of the earlier Simpress after the same calls of route: the
\* entries the Simpress with routers keeps in its default router
Routes09 == routerHeap[app.routers[1]].routes

\* for (const [_, route] of this._routes): position in the Map of the route
\* the scan stops at, 0 when it runs to the end
FirstMatch09(method, url) ==
    LET hits == { i \in 1..Len(Routes09) :
                    /\ TestRoute(Routes09[i].val, url).ok
                    /\ method = routeHeap[Routes09[i].val].method }
    IN IF hits = {} THEN 0 ELSE CHOOSE i \in hits : \A j \in hits : i <= j

\* [this, route]
Levels09(q) == <<AppLevel, RouteLevel(q.route)>>

\* res.writeHead(404); res.end()
NotFound09(q) ==
    [q EXCEPT !.pc = "done", !.cur = 0, !.status = 404, !.ended = TRUE,
              !.trace = @ \o <<WriteHeadEv(404), EndEv("")>>]

\* route.listener(req, res); return
CallListener09(q) ==
    [ListenerEffect([q EXCEPT !.trace = Append(@, HandlerEv(q.route))])
        EXCEPT !.pc = "done", !.cur = 0]

\* await new Promise(resolve => middleware(req, res, resolve))
Invoke09(q, kind, i, arg) ==
    LET lv == Levels09(q)[q.level]
        list == IF kind = "mw" THEN MiddlewaresOf(lv) ELSE ErrMiddlewaresOf(lv)
        n == Len(q.trace) + 1
    IN [q EXCEPT !.pc = "await",
                 !.idx = IF kind = "mw" THEN i ELSE @,
                 !.eidx = IF kind = "emw" THEN i ELSE 0,
                 !.err = arg,
                 !.cur = n,
                 !.awaiting = @ \cup {n},
                 !.trace = Append(@, CallEv(kind, lv, i, list[i], arg))]

RECURSIVE RunFrom09(_, _, _)
\* the loops over the two levels and their middlewares, entered at middleware
\* i of level lv
RunFrom09(q, lv, i) ==
    IF lv > 2 THEN CallListener09(q)
    ELSE IF i > Len(MiddlewaresOf(Levels09(q)[lv])) THEN RunFrom09(q, lv + 1, 1)
    ELSE Invoke09([q EXCEPT !.level = lv], "mw", i, Undefined)

\* for (const errMiddleware of level.errMiddlewares), entered at error
\* middleware j; return when the list ran out
Cascade09(q, err, j) ==
    IF j > Len(ErrMiddlewaresOf(Levels09(q)[q.level]))
    THEN [q EXCEPT !.pc = "done", !.cur = 0]
    ELSE Invoke09(q, "emw", j, err)

\* the awaited promise resolved with v
Resume09(q, v) ==
    IF q.eidx = 0
    THEN IF v # Undefined THEN Cascade09(q, v, 1) ELSE RunFrom09(q, q.level, q.idx + 1)
    ELSE IF v = Undefined THEN [q EXCEPT !.pc = "done", !.cur = 0]
         ELSE Cascade09(q, v, q.eidx + 1)

\* the listener up to its first await
Listener09(q0, method, url) ==
    LET q == [q0 EXCEPT !.method = method, !.url = url]
        hit == FirstMatch09(method, url)
    IN IF hit = 0 THEN NotFound09(q)
       ELSE RunFrom09([q EXCEPT !.route = Routes09[hit].val,
                                !.pathRegex = routeHeap[Routes09[hit].val].path], 1, 1)

\* resolve(v) of the stage called at history entry s
Fired09(q, s, v) ==
    LET fired == [q EXCEPT !.awaiting = @ \ {s},
                           !.trace = Append(@, NextEv(q.trace[s], v))]
    IN IF q.pc = "await" /\ q.cur = s THEN Resume09(fired, v) ELSE fired

\* a request of the Simpress with routers seen as a request of the earlier
\* one: the route is level 2 of [this, route] and level 3 of
\* [this, router, route]
AsTwoTier(q) == [q EXCEPT !.level = IF @ = 3 THEN 2 ELSE @]

\* every route is in the default router, and no router has middlewares or
\* error middlewares
DefaultGroupOnly ==
    /\ \A g \in RouterIds : g # app.routers[1] => routerHeap[g].routes = <<>>
    /\ \A g \in RouterIds :
          routerHeap[g].middlewares = <<>> /\ routerHeap[g].errMiddlewares = <<>>

PathsRegExp == {PathB, PathOnlyB}

\* routes registered with RegExp patterns on the application, middlewares on
\* the application and on the routes, a router without routes attached
Setup09 ==
    /\ ~listening
    /\ SetupSize < MaxSetup
    /\ \/ \E m \in Mws : AppUse(m)
       \/ \E e \in ErrMws : AppUseForError(e)
       \/ \E r \in UserRouters : UseRouter(r)
       \/ \E p \in PathsRegExp, h \in Listeners : AppRoute(p, "GET", h)
       \/ \E id \in DOMAIN routeHeap, m \in Mws : RouteUse(id, m)
       \/ \E id \in DOMAIN routeHeap, e \in ErrMws : RouteUseForError(id, e)

Next09 ==
    \/ Setup09
    \/ Listen
    \/ Dispatch("r1", Urls, ContVals)

Spec09 == Init /\ [][Next09]_vars

\* C39: when every route is registered with a RegExp pattern in the default
\* router and no router has middlewares, each step of the listener with the
\* levels [this, router, route] is the step the listener with the levels
\* [this, route] takes on the same registrations, request and continuation
\* values: the same middlewares, error middlewares and handler are called in
\* the same order with the same arguments, and 404 is written in the same cases.
C39_SameAsTwoTier ==
    [][\A r \in RIds :
          (DefaultGroupOnly /\ req'[r] # req[r]) =>
              IF req[r].pc = "idle"
              THEN AsTwoTier(req'[r]) = Listener09(req[r], req'[r].method, req'[r].url)
              ELSE \E s \in req[r].awaiting, v \in ContVals :
                      /\ Len(req'[r].trace) > Len(req[r].trace)
                      /\ req'[r].trace[Len(req[r].trace) + 1] = NextEv(req[r].trace[s], v)
                      /\ AsTwoTier(req'[r]) = Fired09(AsTwoTier(req[r]), s, v)]_vars

\* a request that went through a middleware of the application and one of its
\* route and reached the handler, a router without routes being attached
C39_Witness ==
    /\ DefaultGroupOnly
    /\ Len(app.routers) = 2
    /\ \E r \in RIds :
          /\ req[r].pc = "done"
          /\ HandlerCalls(req[r].trace) # {}
          /\ \E a, b \in MwCalls(req[r].trace) :
                req[r].trace[a].k = "app" /\ req[r].trace[b].k = "route"

=============================================================================
